---- MODULE Spec2Model ----
(***************************************************************************)
(* Federation consistency engine of the social-distribution backend:       *)
(* URL normalisation, the inbox dispatcher and its object resolvers, the   *)
(* follow / friendship relations and the entry read paths.                 *)
(*                                                                         *)
(* A URL is a sequence of one-character strings.  A UUID (36 characters in *)
(* the program) is written as one token "u1".."u9"; it is the only         *)
(* multi-character element a URL may hold.  The path words "api/authors",  *)
(* "entries", "liked" and "commented" are abbreviated to the single        *)
(* characters "a", "e", "k" and "c".                                       *)
(***************************************************************************)
EXTENDS Integers, Sequences, FiniteSets, TLC

\* Python's None where a string is expected
None == "None"

\* an absent or empty URL
NoUrl == <<>>

\* the empty dict an activity's missing author, actor or object defaults to
NoData == [id |-> NoUrl, displayName |-> ""]

\* the value a processor hands back when it returns None
NoObject == [type |-> None]

(***************************************************************************)
(* Characters                                                              *)
(***************************************************************************)
UuidTokens == {"ua", "ub", "u0", "u1", "u2", "u3", "u4", "u5", "u6", "u7", "u8", "u9"}

UpperChars == {"H", "T", "P", "S", "N", "L"}

LowerChars == {"h", "t", "p", "s", "n", "l", "a", "e", "k", "c", "x"}

DigitChars == {"0", "3", "4", "8"}

\* str.lower() on one character
LowerChar(c) ==
    CASE c = "H" -> "h"
      [] c = "T" -> "t"
      [] c = "P" -> "p"
      [] c = "S" -> "s"
      [] c = "N" -> "n"
      [] c = "L" -> "l"
      [] OTHER -> c

\* ord() of a character; a UUID token is ordered by its first hex digit
Code(c) ==
    CASE c = "#" -> 35
      [] c = "/" -> 47
      [] c = "0" -> 48
      [] c = "u0" -> 48
      [] c = "u1" -> 49
      [] c = "u2" -> 50
      [] c = "3" -> 51
      [] c = "4" -> 52
      [] c = "u5" -> 53
      [] c = "u6" -> 54
      [] c = "u7" -> 55
      [] c = "8" -> 56
      [] c = "u9" -> 57
      [] c = ":" -> 58
      [] c = "?" -> 63
      [] c = "@" -> 64
      [] c = "H" -> 72
      [] c = "L" -> 76
      [] c = "N" -> 78
      [] c = "P" -> 80
      [] c = "S" -> 83
      [] c = "T" -> 84
      [] c = "a" -> 97
      [] c = "ua" -> 97
      [] c = "ub" -> 98
      [] c = "u3" -> 98
      [] c = "c" -> 99
      [] c = "u4" -> 100
      [] c = "e" -> 101
      [] c = "u8" -> 102
      [] c = "h" -> 104
      [] c = "k" -> 107
      [] c = "l" -> 108
      [] c = "n" -> 110
      [] c = "p" -> 112
      [] c = "s" -> 115
      [] c = "t" -> 116
      [] c = "x" -> 120
      [] OTHER -> 0

DigitVal(c) ==
    CASE c = "0" -> 0
      [] c = "3" -> 3
      [] c = "4" -> 4
      [] c = "8" -> 8
      [] OTHER -> 0

(***************************************************************************)
(* String helpers (Python str methods on sequences of characters)          *)
(***************************************************************************)
\* s.lower()
Lower(s) == [i \in 1..Len(s) |-> LowerChar(s[i])]

\* s.find(c) as a 1-based index, 0 when absent
Find(s, c) ==
    IF \E i \in 1..Len(s) : s[i] = c
    THEN CHOOSE i \in 1..Len(s) : s[i] = c /\ \A j \in 1..(i - 1) : s[j] # c
    ELSE 0

\* s.rfind(c) as a 1-based index, 0 when absent
RFind(s, c) ==
    IF \E i \in 1..Len(s) : s[i] = c
    THEN CHOOSE i \in 1..Len(s) : s[i] = c /\ \A j \in (i + 1)..Len(s) : s[j] # c
    ELSE 0

\* index of the first character of s that is in cs, Len(s)+1 when none is
FindAny(s, cs) ==
    IF \E i \in 1..Len(s) : s[i] \in cs
    THEN CHOOSE i \in 1..Len(s) : s[i] \in cs /\ \A j \in 1..(i - 1) : s[j] \notin cs
    ELSE Len(s) + 1

\* s[i-1:] of Python, i 1-based
From(s, i) == SubSeq(s, i, Len(s))

\* s[:i-1] of Python, i 1-based
Before(s, i) == SubSeq(s, 1, i - 1)

\* s.rstrip("/")
RECURSIVE RStripSlash(_)
RStripSlash(s) ==
    IF Len(s) > 0 /\ s[Len(s)] = "/"
    THEN RStripSlash(SubSeq(s, 1, Len(s) - 1))
    ELSE s

\* s.startswith(p)
StartsWith(s, p) == Len(s) >= Len(p) /\ SubSeq(s, 1, Len(p)) = p

\* int(s) for a string of digits
RECURSIVE ToInt(_)
ToInt(s) ==
    IF Len(s) = 0 THEN 0
    ELSE 10 * ToInt(SubSeq(s, 1, Len(s) - 1)) + DigitVal(s[Len(s)])

DigitOf(n) ==
    CASE n = 0 -> "0"
      [] n = 3 -> "3"
      [] n = 4 -> "4"
      [] n = 8 -> "8"
      [] OTHER -> "x"

\* str(n) for a natural number
RECURSIVE ToStr(_)
ToStr(n) ==
    IF n < 10 THEN <<DigitOf(n)>>
    ELSE ToStr(n \div 10) \o <<DigitOf(n % 10)>>

\* Python's a < b on strings: lexicographic by character code
RECURSIVE StrLess(_, _)
StrLess(a, b) ==
    IF Len(b) = 0 THEN FALSE
    ELSE IF Len(a) = 0 THEN TRUE
    ELSE IF Code(a[1]) < Code(b[1]) THEN TRUE
    ELSE IF Code(a[1]) > Code(b[1]) THEN FALSE
    ELSE StrLess(Tail(a), Tail(b))

(***************************************************************************)
(* urllib.parse.urlparse and the identity normaliser                       *)
(***************************************************************************)
SchemeChars == UpperChars \cup LowerChars \cup DigitChars

\* the one element of a singleton set
Only(S) == CHOOSE x \in S : TRUE

\* urlsplit, first step: the scheme up to the first ":" and the rest
SplitScheme(url) ==
    LET i == Find(url, ":")
        hasScheme == /\ i > 1
                     /\ url[1] \in (UpperChars \cup LowerChars)
                     /\ \A j \in 1..(i - 1) : url[j] \in SchemeChars
    IN  [scheme |-> IF hasScheme THEN Lower(Before(url, i)) ELSE <<>>,
         rest |-> IF hasScheme THEN From(url, i + 1) ELSE url]

\* urlsplit, second step: the netloc after "//", up to the first "/", "?" or "#"
SplitNetloc(p) ==
    LET hasNet == StartsWith(p.rest, <<"/", "/">>)
        r2 == IF hasNet THEN From(p.rest, 3) ELSE p.rest
        d == FindAny(r2, {"/", "?", "#"})
    IN  [scheme |-> p.scheme,
         netloc |-> IF hasNet THEN Before(r2, d) ELSE <<>>,
         rest |-> IF hasNet THEN From(r2, d) ELSE p.rest]

\* urlsplit, third step: the fragment after the first "#"
SplitFragment(p) ==
    LET f == Find(p.rest, "#")
    IN  [scheme |-> p.scheme, netloc |-> p.netloc,
         fragment |-> IF f > 0 THEN From(p.rest, f + 1) ELSE <<>>,
         rest |-> IF f > 0 THEN Before(p.rest, f) ELSE p.rest]

\* urlsplit, last step: the query after the first "?", the path before it
SplitQuery(p) ==
    LET q == Find(p.rest, "?")
    IN  [scheme |-> p.scheme, netloc |-> p.netloc,
         path |-> IF q > 0 THEN Before(p.rest, q) ELSE p.rest,
         query |-> IF q > 0 THEN From(p.rest, q + 1) ELSE <<>>,
         fragment |-> p.fragment]

\* the result of urlparse(url): scheme, netloc, path, query, fragment
urlparse(url) ==
    Only({SplitQuery(c) : c \in
            {SplitFragment(b) : b \in
                {SplitNetloc(a) : a \in {SplitScheme(url)}}}})

\* netloc.rpartition("@"): the part after the last "@"
HostInfo(netloc) == From(netloc, RFind(netloc, "@") + 1)

\* netloc.rpartition("@"): the part before the last "@"
UserInfo(netloc) ==
    IF RFind(netloc, "@") > 0 THEN Before(netloc, RFind(netloc, "@")) ELSE <<>>

\* s.partition(c)[0]: the part before the first c, all of s when c is absent
PartitionHead(s, c) == IF Find(s, c) > 0 THEN Before(s, Find(s, c)) ELSE s

\* s.partition(c)[2]: the part after the first c, "" when c is absent
PartitionTail(s, c) == IF Find(s, c) > 0 THEN From(s, Find(s, c) + 1) ELSE <<>>

\* ParseResult._hostinfo[0]: the text between "[" and "]" of a bracketed host,
\* the text before the first ":" otherwise
HostText(netloc) ==
    Only({IF Find(hi, "[") > 0
          THEN PartitionHead(PartitionTail(hi, "["), "]")
          ELSE PartitionHead(hi, ":") : hi \in {HostInfo(netloc)}})

\* ParseResult.hostname, "" standing for None
Hostname(netloc) == Lower(HostText(netloc))

\* ParseResult._hostinfo[1]: the text after the first ":" of the host part,
\* of what follows "]" when the host is bracketed
PortText(netloc) ==
    Only({IF Find(hi, "[") > 0
          THEN PartitionTail(PartitionTail(PartitionTail(hi, "["), "]"), ":")
          ELSE PartitionTail(hi, ":") : hi \in {HostInfo(netloc)}})

\* urlsplit raises ValueError("Invalid IPv6 URL") on one bracket without the other
InvalidIPv6(netloc) == (Find(netloc, "[") > 0) # (Find(netloc, "]") > 0)

\* ParseResult.port raises ValueError on a port that is not a number in range
PortRaises(netloc) ==
    \E p \in {PortText(netloc)} :
        /\ Len(p) > 0
        /\ \/ \E j \in 1..Len(p) : p[j] \notin DigitChars
           \/ ToInt(p) > 65535

\* ParseResult.port, 0 standing for None (the caller tests `if port`)
Port(netloc) ==
    Only({IF Len(p) = 0 THEN 0 ELSE ToInt(p) : p \in {PortText(netloc)}})

\* ParseResult.username
Username(netloc) ==
    Only({IF Find(ui, ":") > 0 THEN Before(ui, Find(ui, ":")) ELSE ui :
             ui \in {UserInfo(netloc)}})

\* ParseResult.password
Password(netloc) ==
    Only({IF Find(ui, ":") > 0 THEN From(ui, Find(ui, ":") + 1) ELSE <<>> :
             ui \in {UserInfo(netloc)}})

HTTP == <<"h", "t", "t", "p">>

HTTPS == <<"h", "t", "t", "p", "s">>

\* normalize_author_url raises (ValueError from urlparse or from parsed.port)
NormalizeRaises(url) ==
    /\ Len(url) > 0
    /\ \E netloc \in {urlparse(url).netloc} :
           InvalidIPv6(netloc) \/ PortRaises(netloc)

\* ParseResult.port with the default port of the scheme dropped
KeptPort(scheme, netloc) ==
    Only({IF (scheme = HTTP /\ port = 80) \/ (scheme = HTTPS /\ port = 443)
          THEN 0 ELSE port : port \in {Port(netloc)}})

\* the host, with the port normalize_author_url keeps
HostPort(scheme, netloc) ==
    Only({IF port # 0 THEN hostname \o <<":">> \o ToStr(port) ELSE hostname :
             hostname \in {Hostname(netloc)}, port \in {KeptPort(scheme, netloc)}})

\* the netloc normalize_author_url rebuilds
Netloc(scheme, netloc) ==
    Only({IF Len(username) > 0
          THEN IF Len(password) > 0
               THEN username \o <<":">> \o password \o <<"@">> \o hostport
               ELSE username \o <<"@">> \o hostport
          ELSE hostport :
             username \in {Username(netloc)}, password \in {Password(netloc)},
             hostport \in {HostPort(scheme, netloc)}})

\* urlunparse of the normalized parts
Unparse(parsed) ==
    Only({(scheme \o <<":", "/", "/">> \o Netloc(scheme, parsed.netloc)
              \o RStripSlash(parsed.path))
          \o (IF Len(parsed.query) > 0 THEN <<"?">> \o parsed.query ELSE <<>>)
          \o (IF Len(parsed.fragment) > 0 THEN <<"#">> \o parsed.fragment ELSE <<>>) :
             scheme \in {Lower(parsed.scheme)}})

\* normalize_author_url(url)
normalize_author_url(url) ==
    IF Len(url) = 0 THEN url
    ELSE Only({Unparse(parsed) : parsed \in {urlparse(url)}})


\* s contains sub as a substring (Python's `sub in s`)
Contains(s, sub) ==
    \E i \in 1..(Len(s) - Len(sub) + 1) : SubSeq(s, i, i + Len(sub) - 1) = sub

\* the last "/"-separated segment of url.rstrip("/")
LastSegment(url) ==
    LET u == RStripSlash(url)
    IN  From(u, RFind(u, "/") + 1)

\* parse_uuid_from_url: the last UUID found in the URL, None when there is none
parse_uuid_from_url(url) ==
    IF \E i \in 1..Len(url) : url[i] \in UuidTokens
    THEN url[CHOOSE i \in 1..Len(url) :
                 url[i] \in UuidTokens /\ \A j \in (i + 1)..Len(url) : url[j] \notin UuidTokens]
    ELSE None

(***************************************************************************)
(* The universe of the model                                               *)
(***************************************************************************)
\* settings.SITE_URL of this node
SITE_URL == <<"h", "t", "t", "p", ":", "/", "/", "l">>

\* host of the one registered remote node
NodeHost == <<"h", "t", "t", "p", ":", "/", "/", "n">>

\* f"{SITE_URL}/api/authors/{id}"
LocalAuthorUrl(id) == SITE_URL \o <<"/", "a", "/", id>>

\* f"{SITE_URL}/api/authors/{author.id}/entries/{id}"
LocalEntryUrl(aid, id) == SITE_URL \o <<"/", "a", "/", aid, "/", "e", "/", id>>

\* the remote author's URL as its home node writes it
RemoteAuthorUrl == NodeHost \o <<"/", "a", "/", "u5">>

\* the same URL with upper-case scheme and host, the default port and a trailing slash
RemoteAuthorUrlAlt == <<"H", "T", "T", "P", ":", "/", "/", "N", ":", "8", "0", "/", "a", "/", "u5", "/">>

\* a remote entry of the remote author
RemoteEntryUrl == RemoteAuthorUrl \o <<"/", "e", "/", "u4">>

\* the same entry URL with a trailing slash
RemoteEntryUrlAlt == RemoteEntryUrl \o <<"/">>

\* a like made by the remote author
RemoteLikeUrl == RemoteAuthorUrl \o <<"/", "k", "/", "u9">>

\* a comment made by the remote author
RemoteCommentUrl == RemoteAuthorUrl \o <<"/", "c", "/", "u8">>

\* the URLs remote nodes send in this model
SentUrls ==
    {RemoteAuthorUrl, RemoteAuthorUrlAlt, RemoteEntryUrl, RemoteEntryUrlAlt,
     RemoteLikeUrl, RemoteCommentUrl, LocalAuthorUrl("u1"), LocalAuthorUrl("u2")}

\* normalize_author_url on the URLs sent, computed once
NormalizedSent == [u \in SentUrls |-> normalize_author_url(u)]

\* the URLs sent on which normalize_author_url raises
RaisingSent == {u \in SentUrls : NormalizeRaises(u)}

\* normalize_author_url(url), looked up for a URL that was sent
normalized(url) ==
    IF url \in SentUrls THEN NormalizedSent[url] ELSE normalize_author_url(url)

\* normalize_author_url(url) raises, looked up for a URL that was sent
normalize_raises(url) ==
    IF url \in SentUrls THEN url \in RaisingSent ELSE NormalizeRaises(url)

\* values uuid.uuid4() returns, in the order it returns them
FreshUuids == <<"u6", "u7", "u0", "ua", "ub">>

\* number of rows this node may create with a generated primary key
MaxFresh == 3

\* number of rows the Inbox table may hold
MaxInbox == 3


REQUESTING == "requesting"

ACCEPTED == "accepted"

REJECTED == "rejected"

PUBLIC == "PUBLIC"

UNLISTED == "UNLISTED"

FRIENDS_ONLY == "FRIENDS"

DELETED == "DELETED"

Visibilities == {PUBLIC, UNLISTED, FRIENDS_ONLY, DELETED}

\* display name -> display_name.lower().replace(" ", "_")
LowerName(n) == IF n = "Rx" THEN "rx" ELSE n

VARIABLES
    authors,       \* Author rows
    nodes,         \* Node rows
    follows,       \* Follow rows
    friendships,   \* Friendship rows
    entries,       \* Entry rows
    likes,         \* Like rows
    comments,      \* Comment rows
    inbox,         \* Inbox rows
    nextUuid,      \* how many generated UUIDs have been used
    response,      \* the last request and what it returned
    workers        \* the inbox requests in progress, each between two statements

vars == <<authors, nodes, follows, friendships, entries, likes, comments, inbox,
          nextUuid, response, workers>>

\* the tables a request handler reads and writes, as one value
DB == [authors |-> authors, follows |-> follows, friendships |-> friendships,
       entries |-> entries, likes |-> likes, comments |-> comments,
       nextUuid |-> nextUuid]

\* commit the tables a handler produced
Commit(d) ==
    /\ authors' = d.authors
    /\ follows' = d.follows
    /\ friendships' = d.friendships
    /\ entries' = d.entries
    /\ likes' = d.likes
    /\ comments' = d.comments
    /\ nextUuid' = d.nextUuid

\* what a request returned: the handler, the HTTP status, the authenticated
\* user (None when anonymous), the request's argument, the entries returned
\* and the requests the handler posted to remote inboxes
Resp(op, status, user, arg, out) ==
    [op |-> op, status |-> status, user |-> user, arg |-> arg, out |-> out,
     sent |-> {}]

AuthorRow(id, url, username, displayName, node, password, is_staff) ==
    [id |-> id, url |-> url, username |-> username, displayName |-> displayName,
     node |-> node, password |-> password, is_staff |-> is_staff]

\* the accounts of this node: two members and one staff account
InitAuthors ==
    { AuthorRow("u1", LocalAuthorUrl("u1"), "la", "la", None, "pw", FALSE),
      AuthorRow("u2", LocalAuthorUrl("u2"), "lb", "lb", None, "pw", FALSE),
      AuthorRow("u3", LocalAuthorUrl("u3"), "ls", "ls", None, "pw", TRUE) }

\* authors that can authenticate against this node
Users == {a \in authors : a.password = "pw"}

\* Author.is_local
is_local(a) == a.node = None

\* Author.is_remote
is_remote(a) == a.node # None

\* Author.objects.get(url=u): the set holding the row, empty on DoesNotExist
AuthorByUrl(as, u) == {a \in as : a.url = u}

(***************************************************************************)
(* Follow rows and the friendship maintainer                               *)
(***************************************************************************)
FollowRow(follower, followed, status) ==
    [follower |-> follower, followed |-> followed, status |-> status]

\* Follow.objects.filter(follower=a, followed=b)
FollowOf(fs, a, b) == {f \in fs : f.follower = a /\ f.followed = b}

\* Follow.objects.filter(follower=a, followed=b, status=ACCEPTED).exists()
AcceptedFollow(fs, a, b) == \E f \in FollowOf(fs, a, b) : f.status = ACCEPTED

\* the pair stored in call order, without comparing the urls
OrderedPair_AsGiven(a, b) == [author1 |-> a, author2 |-> b]

\* Friendship.update_friendships: the author with the smaller url is author1
OrderedPair(a, b) ==
    IF StrLess(a, b) THEN [author1 |-> a, author2 |-> b]
    ELSE [author1 |-> b, author2 |-> a]

\* Friendship.update_friendships(author1, author2) on follows fs and
\* friendships frs; the no_self_friendship check constraint makes the
\* get_or_create of a row with author1 = author2 raise, the table unchanged
update_friendships(fs, frs, a, b) ==
    IF AcceptedFollow(fs, a, b) /\ AcceptedFollow(fs, b, a)
    THEN IF a = b THEN frs ELSE frs \cup {OrderedPair(a, b)}
    ELSE {r \in frs : ~ \/ (r.author1 = a /\ r.author2 = b)
                        \/ (r.author1 = b /\ r.author2 = a)}

\* update_friendships raises IntegrityError
update_friendships_raises(fs, a, b) ==
    a = b /\ AcceptedFollow(fs, a, b)

\* post_save receiver of Follow: fs already holds the saved row f
update_friendship_on_follow_save(fs, frs, f) ==
    IF f.status = ACCEPTED
    THEN update_friendships(fs, frs, f.follower, f.followed)
    ELSE frs

\* post_delete receiver of Follow: fs no longer holds the deleted row f
update_friendship_on_follow_delete(fs, frs, f) ==
    update_friendships(fs, frs, f.follower, f.followed)

\* Follow.objects.create(...) followed by its post_save signal
CreateFollow(d, follower, followed, status) ==
    LET f == FollowRow(follower, followed, status)
        fs == d.follows \cup {f}
    IN  [d EXCEPT !.follows = fs,
                  !.friendships = update_friendship_on_follow_save(fs, d.friendships, f)]

\* follow.status = status; follow.save() followed by its post_save signal
SaveFollowStatus(d, f, status) ==
    LET g == [f EXCEPT !.status = status]
        fs == (d.follows \ {f}) \cup {g}
    IN  [d EXCEPT !.follows = fs,
                  !.friendships = update_friendship_on_follow_save(fs, d.friendships, g)]

\* follow.delete() followed by its post_delete signal
DeleteFollow(d, f) ==
    LET fs == d.follows \ {f}
    IN  [d EXCEPT !.follows = fs,
                  !.friendships = update_friendship_on_follow_delete(fs, d.friendships, f)]

(***************************************************************************)
(* The local follow API                                                    *)
(***************************************************************************)
\* AuthorViewSet.follow, POST: `user` asks to follow `target`
follow(user, target) ==
    LET existing == FollowOf(follows, user.url, target.url)
        d1 == IF \E f \in existing : f.status = REJECTED
              THEN DeleteFollow(DB, CHOOSE f \in existing : TRUE)
              ELSE DB
        st == IF is_remote(target) THEN ACCEPTED ELSE REQUESTING
    IN  /\ user \in Users
        /\ target \in authors
        /\ IF user.id = target.id
              \/ \E f \in existing : f.status \in {ACCEPTED, REQUESTING}
           THEN /\ response' = Resp("follow", 400, None, None, {})
                /\ UNCHANGED <<authors, follows, friendships, entries, likes,
                               comments, nextUuid>>
           ELSE /\ Commit(CreateFollow(d1, user.url, target.url, st))
                /\ response' = Resp("follow", 201, None, None, {})
        /\ UNCHANGED <<nodes, inbox, workers>>

\* AuthorViewSet.follow, DELETE: `user` stops following `target`
unfollow(user, target) ==
    LET existing == FollowOf(follows, user.url, target.url)
    IN  /\ user \in Users
        /\ target \in authors
        /\ IF existing = {}
           THEN /\ response' = Resp("unfollow", 404, None, None, {})
                /\ UNCHANGED <<authors, follows, friendships, entries, likes,
                               comments, nextUuid>>
           ELSE /\ Commit(DeleteFollow(DB, CHOOSE f \in existing : TRUE))
                /\ response' = Resp("unfollow", 204, None, None, {})
        /\ UNCHANGED <<nodes, inbox, workers>>

\* FollowViewSet.create with FollowCreateSerializer.create: POST /api/follows/
FollowCreate(user, followed_url) ==
    /\ user \in Users
    /\ IF \/ AuthorByUrl(authors, followed_url) = {}
          \/ user.url = followed_url
          \/ FollowOf(follows, user.url, followed_url) # {}
       THEN /\ response' = Resp("FollowCreate", 500, None, None, {})
            /\ UNCHANGED <<authors, follows, friendships, entries, likes,
                           comments, nextUuid>>
       ELSE /\ Commit(CreateFollow(DB, user.url, followed_url, REQUESTING))
            /\ response' = Resp("FollowCreate", 201, None, None, {})
    /\ UNCHANGED <<nodes, inbox, workers>>

\* FollowViewSet.destroy: DELETE /api/follows/{id}/
FollowDestroy(user, f) ==
    /\ user \in Users
    /\ f \in follows
    /\ Commit(DeleteFollow(DB, f))
    /\ response' = Resp("FollowDestroy", 200, None, None, {})
    /\ UNCHANGED <<nodes, inbox, workers>>

\* setting a Follow's status in FollowViewSet.accept / FollowViewSet.reject
Respond(op, user, f, status) ==
    /\ user \in Users
    /\ f \in follows
    /\ IF f.followed # user.url
       THEN /\ response' = Resp(op, 403, None, None, {})
            /\ UNCHANGED <<authors, follows, friendships, entries, likes,
                           comments, nextUuid>>
       ELSE /\ Commit(SaveFollowStatus(DB, f, status))
            /\ response' = Resp(op,
                                IF status = ACCEPTED
                                   /\ update_friendships_raises({[f EXCEPT !.status = status]},
                                                                f.follower, f.followed)
                                THEN 500 ELSE 200,
                                None, None, {})
    /\ UNCHANGED <<nodes, inbox, workers>>

\* FollowViewSet.accept: POST /api/follows/{id}/accept
accept(user, f) == Respond("accept", user, f, ACCEPTED)

\* FollowViewSet.reject: POST /api/follows/{id}/reject
reject(user, f) == Respond("reject", user, f, REJECTED)

\* IsAdminOrOwnerOrReadOnly.has_object_permission for a PUT, PATCH or DELETE
\* on the author obj
has_object_permission(user, obj) == user.is_staff \/ obj.id = user.id

\* AuthorViewSet.follower_detail, PUT: add `foreign` as a follower of `author`
follower_detail_put(user, author, foreign) ==
    LET existing == FollowOf(follows, foreign.url, author.url)
    IN  /\ user \in Users
        /\ author \in authors
        /\ foreign \in authors
        /\ IF ~ has_object_permission(user, author)
           THEN /\ response' = Resp("follower_detail_put", 403, None, None, {})
                /\ UNCHANGED <<authors, follows, friendships, entries, likes,
                               comments, nextUuid>>
           \* get_or_create runs the insert and its post_save inside a savepoint:
           \* when the friendship maintainer raises, the new row is rolled back
           ELSE /\ Commit(IF existing = {}
                          THEN IF author = foreign THEN DB
                               ELSE CreateFollow(DB, foreign.url, author.url, ACCEPTED)
                          ELSE LET f == CHOOSE f \in existing : TRUE
                               IN  IF f.status # ACCEPTED
                                   THEN SaveFollowStatus(DB, f, ACCEPTED)
                                   ELSE DB)
                /\ response' = Resp("follower_detail_put",
                                    IF author = foreign
                                       /\ ~ AcceptedFollow(follows, foreign.url, author.url)
                                    THEN 500 ELSE 200,
                                    None, None, {})
        /\ UNCHANGED <<nodes, inbox, workers>>

\* AuthorViewSet.follower_detail, DELETE: remove `foreign` as a follower of `author`
follower_detail_delete(user, author, foreign) ==
    LET existing == FollowOf(follows, foreign.url, author.url)
    IN  /\ user \in Users
        /\ author \in authors
        /\ foreign \in authors
        /\ IF ~ has_object_permission(user, author)
           THEN /\ response' = Resp("follower_detail_delete", 403, None, None, {})
                /\ UNCHANGED <<authors, follows, friendships, entries, likes,
                               comments, nextUuid>>
           ELSE /\ Commit(IF existing = {} THEN DB
                          ELSE DeleteFollow(DB, CHOOSE f \in existing : TRUE))
                /\ response' = Resp("follower_detail_delete", 204, None, None, {})
        /\ UNCHANGED <<nodes, inbox, workers>>

(***************************************************************************)
(* Initial state and the follow specification                              *)
(***************************************************************************)
\* one federated node, active, serving NodeHost
InitNodes == {[id |-> "n1", host |-> NodeHost, is_active |-> TRUE]}

\* the requests that may run at the same time
Workers == {"w1", "w2"}

\* a request not yet received: where it stands, what its last SELECT found,
\* whether an INSERT of it hit a unique constraint, the author and entry it
\* resolved, the object data it serialized and its HTTP status
Idle ==
    [pc |-> "idle", found |-> FALSE, lost |-> FALSE, author |-> NoUrl,
     entry |-> NoUrl, object |-> NoObject, status |-> 0]

Init ==
    /\ workers = [w \in Workers |-> Idle]
    /\ authors = InitAuthors
    /\ nodes = InitNodes
    /\ follows = {}
    /\ friendships = {}
    /\ entries = {}
    /\ likes = {}
    /\ comments = {}
    /\ inbox = {}
    /\ nextUuid = 1
    /\ response = Resp("init", 0, None, None, {})

\* the authors whose follow relationships are exercised; the staff account
\* takes part as a caller only
Members == {a \in authors : ~ a.is_staff}

NextFollow ==
    \/ \E user \in authors, target \in Members : follow(user, target)
    \/ \E user \in authors, target \in Members : unfollow(user, target)
    \/ \E user \in authors, target \in Members : FollowCreate(user, target.url)
    \/ \E user \in authors, f \in follows : FollowDestroy(user, f)
    \/ \E user \in authors, f \in follows : accept(user, f)
    \/ \E user \in authors, f \in follows : reject(user, f)
    \/ \E user \in authors, author \in Members, foreign \in authors :
          follower_detail_put(user, author, foreign)
    \/ \E user \in authors, author \in Members, foreign \in authors :
          follower_detail_delete(user, author, foreign)

SpecFollow == Init /\ [][NextFollow]_vars

(***************************************************************************)
(* Friendship                                                              *)
(***************************************************************************)
\* a Friendship row for the unordered pair {a, b}
FriendshipRow(frs, a, b) ==
    \E r \in frs : \/ (r.author1 = a /\ r.author2 = b)
                   \/ (r.author1 = b /\ r.author2 = a)

\* C1: a Friendship row exists for two distinct authors exactly when each
\* follows the other with status ACCEPTED, after every follow operation
C1_FriendshipIffMutual ==
    \A a \in authors, b \in authors :
        a.url # b.url =>
            (FriendshipRow(friendships, a.url, b.url)
                <=> (AcceptedFollow(follows, a.url, b.url)
                     /\ AcceptedFollow(follows, b.url, a.url)))

\* C2: every Friendship row has author1.url < author2.url, and no unordered
\* pair of authors has more than one row
C2_OneOrderedRowPerPair ==
    /\ \A r \in friendships : StrLess(r.author1, r.author2)
    /\ \A r \in friendships, q \in friendships :
          {r.author1, r.author2} = {q.author1, q.author2} => r = q

\* two authors became friends through a follow accepted in each direction
C2_Witness ==
    /\ friendships # {}
    /\ \E r \in friendships : /\ AcceptedFollow(follows, r.author1, r.author2)
                              /\ AcceptedFollow(follows, r.author2, r.author1)

\* C29: for every author of this node, the authors with an ACCEPTED Follow in
\* both directions (the friends of the feed) are the authors a Friendship row
\* links to that author (the friends of the visibility rules)
C29_FeedFriendsAreFriendships ==
    \A viewer \in authors :
        {f.followed : f \in {g \in follows : g.follower = viewer.url
                                               /\ g.status = ACCEPTED}}
           \cap {f.follower : f \in {g \in follows : g.followed = viewer.url
                                                      /\ g.status = ACCEPTED}}
        = {a.url : a \in {b \in authors : FriendshipRow(friendships, viewer.url, b.url)}}

\* C23: a DELETE of a Follow sent by an author who is not its follower leaves
\* the Follow stored
C23_OnlyFollowerUnfollows ==
    [][\A user \in authors, f \in follows :
          (FollowDestroy(user, f) /\ user.url # f.follower) => f \in follows']_vars

(***************************************************************************)
(* Inbox activities and the activity serializer                            *)
(*                                                                         *)
(* An activity is a record holding the keys its sender wrote.  A JSON      *)
(* string under the key "object" is the record [str |-> url], a JSON       *)
(* object is the record of its own keys.  content and contentType, which   *)
(* every sender supplies, are not carried.                                 *)
(***************************************************************************)
\* the keys ActivitySerializer declares; serializer.validated_data holds no other
DeclaredFields ==
    {"type", "id", "title", "visibility", "author", "actor", "object", "entry",
     "comment"}

\* dict.get(key) for a key holding a string
GetStr(data, key) == IF key \in DOMAIN data THEN data[key] ELSE None

\* dict.get(key) for a key holding a URL
GetUrl(data, key) == IF key \in DOMAIN data THEN data[key] ELSE NoUrl

\* dict.get(key, {}) for a key holding an object
GetDict(data, key) == IF key \in DOMAIN data THEN data[key] ELSE NoData

\* isinstance(value, dict) for a value posted under "object"
IsDict(value) == "str" \notin DOMAIN value

\* ActivitySerializer.validate_type
valid_types == {"entry", "follow", "like", "comment"}

\* the fields ActivitySerializer.validate requires for a type
required_fields(type) ==
    CASE type = "entry" -> {"id", "author", "title"}
      [] type = "follow" -> {"actor", "object"}
      [] type = "like" -> {"id", "author", "object"}
      [] type = "comment" -> {"id", "author", "comment", "entry"}
      [] OTHER -> {}

\* serializer.is_valid()
is_valid(data) ==
    /\ data.type \in valid_types
    /\ \A k \in required_fields(data.type) : k \in DOMAIN data
    /\ data.type = "follow" => IsDict(data.object)

\* serializer.validated_data: the declared keys of the posted activity
validated_data(data) == [k \in DOMAIN data \cap DeclaredFields |-> data[k]]

(***************************************************************************)
(* Rows created from activities                                            *)
(***************************************************************************)
EntryRow(id, url, author, title, visibility) ==
    [id |-> id, url |-> url, author |-> author, title |-> title,
     visibility |-> visibility]

\* entry and comment hold the target's url, NoUrl for NULL
LikeRow(id, url, author, entry, comment) ==
    [id |-> id, url |-> url, author |-> author, entry |-> entry, comment |-> comment]

CommentRow(id, url, author, entry, content) ==
    [id |-> id, url |-> url, author |-> author, entry |-> entry, content |-> content]

\* the value uuid.uuid4() returns next
Fresh(d) ==
    FreshUuids[IF d.nextUuid <= Len(FreshUuids) THEN d.nextUuid ELSE Len(FreshUuids)]

\* a helper's outcome: the tables it leaves, whether it returned a value
\* (ok is FALSE where the code returns None) and the value
Out(d, ok, r) == [d |-> d, ok |-> ok, r |-> r]

\* Author.objects.update_or_create(url=..., defaults=...) inserting a row on
\* every call, whether or not the url is already stored
update_or_create_author_always(d, url, username, displayName) ==
    IF \E a \in d.authors : a.username = username /\ a.url # url
    THEN Out(d, FALSE, NoUrl)
    ELSE Out([d EXCEPT !.authors = @ \cup {AuthorRow(Fresh(d), url, username,
                                                       displayName, None, "", FALSE)},
                       !.nextUuid = @ + 1], TRUE, url)

\* Author.objects.update_or_create(url=url, defaults={username, displayName});
\* not ok where Django raises IntegrityError (username is unique)
update_or_create_author(d, url, username, displayName) ==
    LET existing == AuthorByUrl(d.authors, url)
    IN  IF existing # {}
        THEN LET a == CHOOSE a \in existing : TRUE
             IN  IF \E b \in d.authors : b # a /\ b.username = username
                 THEN Out(d, FALSE, NoUrl)
                 ELSE Out([d EXCEPT !.authors =
                              (@ \ {a}) \cup {[a EXCEPT !.username = username,
                                                        !.displayName = displayName]}],
                          TRUE, url)
        ELSE IF \E a \in d.authors : a.username = username
             THEN Out(d, FALSE, NoUrl)
             ELSE Out([d EXCEPT !.authors = @ \cup {AuthorRow(Fresh(d), url, username,
                                                                displayName, None, "", FALSE)},
                                !.nextUuid = @ + 1], TRUE, url)

\* the username _get_or_create_author_from_activity derives from displayName
activity_username(author_data) ==
    IF author_data.displayName # ""
    THEN LowerName(author_data.displayName) ELSE "unknown"

\* the end of _get_or_create_author_from_activity: the outcome o of
\* update_or_create, or an author stored under either spelling of the url
author_after_update(d, author_data, normalized_url, o) ==
    IF o.ok THEN o
    ELSE IF AuthorByUrl(d.authors, normalized_url) # {}
         THEN Out(d, TRUE, normalized_url)
    ELSE IF AuthorByUrl(d.authors, author_data.id) # {}
         THEN Out(d, TRUE, author_data.id)
    ELSE Out(d, FALSE, NoUrl)

\* _get_or_create_author_from_activity once the url is normalized
author_at(d, author_data, normalized_url) ==
    Only({author_after_update(d, author_data, normalized_url, o) :
             o \in {update_or_create_author(d, normalized_url,
                                            activity_username(author_data),
                                            author_data.displayName)}})

\* AuthorViewSet._get_or_create_author_from_activity: the resolved author's url
get_or_create_author_from_activity(d, author_data) ==
    IF author_data.id = NoUrl \/ normalize_raises(author_data.id)
    THEN Out(d, FALSE, NoUrl)
    ELSE Only({author_at(d, author_data, normalized_url) :
                  normalized_url \in {normalized(author_data.id)}})

\* Entry.objects.update_or_create(url=normalized_entry_url, defaults=...) for
\* the resolved author a
entry_at(a, activity_data, normalized_entry_url) ==
    LET existing == {e \in a.d.entries : e.url = normalized_entry_url}
        title == GetStr(activity_data, "title")
        visibility == IF "visibility" \in DOMAIN activity_data
                      THEN activity_data.visibility ELSE PUBLIC
    IN  IF existing # {}
        THEN Out([a.d EXCEPT !.entries =
                     (@ \ existing)
                     \cup {[e EXCEPT !.author = a.r, !.title = title,
                                     !.visibility = visibility] : e \in existing}],
                 TRUE, normalized_entry_url)
        ELSE Out([a.d EXCEPT !.entries =
                     @ \cup {EntryRow(Fresh(a.d), normalized_entry_url, a.r,
                                      title, visibility)},
                             !.nextUuid = @ + 1],
                 TRUE, normalized_entry_url)

\* _get_or_create_entry_from_activity once the author is resolved
entry_of(a, activity_data, entry_url) ==
    IF ~ a.ok \/ entry_url = NoUrl \/ normalize_raises(entry_url)
    THEN Out(a.d, FALSE, NoUrl)
    ELSE Only({entry_at(a, activity_data, normalized_entry_url) :
                  normalized_entry_url \in {normalized(entry_url)}})

\* AuthorViewSet._get_or_create_entry_from_activity: the url of the entry
\* created or updated from the activity
get_or_create_entry_from_activity(d, activity_data) ==
    Only({entry_of(a, activity_data, entry_url) :
             a \in {get_or_create_author_from_activity(
                       d, GetDict(activity_data, "author"))},
             entry_url \in {GetUrl(activity_data, "id")}})

(***************************************************************************)
(* Serialized objects, as stored in Inbox.object_data                      *)
(***************************************************************************)
\* AuthorSerializer.to_representation
AuthorData(d, url) ==
    LET a == CHOOSE a \in AuthorByUrl(d.authors, url) : TRUE
    IN  [type |-> "author", id |-> RStripSlash(a.url), displayName |-> a.displayName]

\* LikeSerializer.to_representation
LikeData(d, l) ==
    [type |-> "like", author |-> AuthorData(d, l.author), id |-> l.url,
     object |-> IF l.entry # NoUrl THEN l.entry ELSE l.comment]

\* CommentSerializer.to_representation
CommentData(d, c) ==
    [type |-> "comment", author |-> AuthorData(d, c.author), comment |-> c.content,
     id |-> c.url, entry |-> c.entry,
     likes |-> {LikeData(d, l) : l \in {l \in d.likes : l.comment = c.url}}]

\* EntrySerializer.to_representation
EntryData(d, e) ==
    [type |-> "entry", title |-> e.title, id |-> e.url,
     author |-> AuthorData(d, e.author), visibility |-> e.visibility,
     comments |-> {CommentData(d, c) : c \in {c \in d.comments : c.entry = e.url}},
     likes |-> {LikeData(d, l) : l \in {l \in d.likes : l.entry = e.url}}]

\* FollowSerializer
FollowData(d, f) ==
    [type |-> "follow", actor |-> AuthorData(d, f.follower),
     object |-> AuthorData(d, f.followed), status |-> f.status]

(***************************************************************************)
(* Processing an activity                                                  *)
(***************************************************************************)
\* AuthorViewSet._process_entry_activity
process_entry_activity(d, activity_data) ==
    Only({IF ~ o.ok THEN Out(o.d, FALSE, NoObject)
          ELSE Out(o.d, TRUE, EntryData(o.d, CHOOSE e \in o.d.entries : e.url = o.r)) :
             o \in {get_or_create_entry_from_activity(d, activity_data)}})

\* the status a follow response sets
response_status(f, response_type) ==
    CASE response_type = "Accept" -> ACCEPTED
      [] response_type = "Reject" -> REJECTED
      [] OTHER -> f.status

\* _process_follow_response on the follow it found
respond_to(d, f, response_type) ==
    Only({Out(d1, TRUE, FollowData(d1, [f EXCEPT !.status =
                                          response_status(f, response_type)])) :
             d1 \in {IF response_type \in {"Accept", "Reject"}
                     THEN SaveFollowStatus(d, f, response_status(f, response_type))
                     ELSE d}})

\* AuthorViewSet._process_follow_response
process_follow_response(d, activity_data, recipient, response_type) ==
    LET found == FollowOf(d.follows, GetDict(activity_data, "follower").id,
                          GetDict(activity_data, "followed").id)
    IN  IF found = {} THEN Out(d, FALSE, NoObject)
        ELSE Only({respond_to(d, f, response_type) : f \in {CHOOSE f \in found : TRUE}})

\* Follow.objects.create(follower=..., followed=..., status=...) in place of
\* get_or_create: a row on every call
follow_create(d, follower, followed, status) ==
    CreateFollow(d, follower, followed, status)

\* Follow.objects.get_or_create(follower=..., followed=..., defaults={"status": ...})
follow_get_or_create(d, follower, followed, status) ==
    IF FollowOf(d.follows, follower, followed) # {} THEN d
    ELSE CreateFollow(d, follower, followed, status)

\* _process_follow_activity once the actor is resolved
follow_request_of(a, recipient) ==
    IF ~ a.ok THEN Out(a.d, FALSE, NoObject)
    ELSE Only({Out(d1, TRUE,
                   FollowData(d1, CHOOSE f \in FollowOf(d1.follows, a.r,
                                                        recipient.url) : TRUE)) :
                  d1 \in {follow_get_or_create(a.d, a.r, recipient.url, REQUESTING)}})

\* AuthorViewSet._process_follow_activity
process_follow_activity(d, activity_data, recipient) ==
    IF GetStr(activity_data, "response_type") # None
    THEN process_follow_response(d, activity_data, recipient,
                                 GetStr(activity_data, "response_type"))
    ELSE Only({follow_request_of(a, recipient) :
                  a \in {get_or_create_author_from_activity(
                            d, GetDict(activity_data, "actor"))}})

\* Entry.objects.get(id=uuid): the entry's url, NoUrl for DoesNotExist
EntryById(d, uuid) ==
    IF \E e \in d.entries : e.id = uuid
    THEN (CHOOSE e \in d.entries : e.id = uuid).url ELSE NoUrl

\* Entry.objects.get(url=url)
EntryByUrl(d, url) == IF \E e \in d.entries : e.url = url THEN url ELSE NoUrl

\* Comment.objects.get(id=uuid): the comment's url, NoUrl for DoesNotExist
CommentById(d, uuid) ==
    IF \E c \in d.comments : c.id = uuid
    THEN (CHOOSE c \in d.comments : c.id = uuid).url ELSE NoUrl

\* Comment.objects.get(url=url)
CommentByUrl(d, url) == IF \E c \in d.comments : c.url = url THEN url ELSE NoUrl

\* a Like row violates unique(url), unique(author, entry) or unique(author, comment)
LikeClash(ls, l) ==
    \E o \in ls : /\ o.id # l.id
                  /\ \/ o.url = l.url
                     \/ (o.author = l.author /\ l.entry # NoUrl /\ o.entry = l.entry)
                     \/ (o.author = l.author /\ l.comment # NoUrl /\ o.comment = l.comment)

\* the Like row _process_like_activity writes, and the tables after it
like_saved(a, entry, comment, like_uuid, normalized_like_url) ==
    LET by_url == {l \in a.d.likes : l.url = normalized_like_url}
        old == IF like_uuid # None THEN {l \in a.d.likes : l.id = like_uuid}
               ELSE by_url
        like == IF like_uuid # None
                THEN LikeRow(like_uuid, normalized_like_url, a.r, entry, comment)
                ELSE IF by_url # {} THEN CHOOSE l \in by_url : TRUE
                ELSE LikeRow(Fresh(a.d), normalized_like_url, a.r, entry, comment)
    IN  IF LikeClash(a.d.likes, like) THEN Out(a.d, FALSE, NoObject)
        ELSE Only({Out(d1, TRUE, LikeData(d1, like)) :
                      d1 \in {[a.d EXCEPT !.likes = (@ \ old) \cup {like},
                                          !.nextUuid =
                                             IF like_uuid = None /\ by_url = {}
                                             THEN @ + 1 ELSE @]}})

\* _process_like_activity once the liked entry or comment is found
like_on(a, activity_data, entry, comment, like_url) ==
    IF entry = NoUrl /\ comment = NoUrl THEN Out(a.d, FALSE, NoObject)
    ELSE IF like_url = NoUrl \/ normalize_raises(like_url)
    THEN Out(a.d, FALSE, NoObject)
    ELSE Only({like_saved(a, entry, comment, like_uuid, normalized_like_url) :
                  like_uuid \in {parse_uuid_from_url(like_url)},
                  normalized_like_url \in {normalized(like_url)}})

\* the liked object of _process_like_activity: the entry or comment with the
\* uuid of the object url, else the entry or comment stored under that url
like_target(a, activity_data, object_url, object_uuid) ==
    LET entry_by_id == IF object_uuid = None THEN NoUrl
                       ELSE EntryById(a.d, object_uuid)
        comment_by_id == IF object_uuid = None \/ entry_by_id # NoUrl THEN NoUrl
                         ELSE CommentById(a.d, object_uuid)
        fallback == entry_by_id = NoUrl /\ comment_by_id = NoUrl
    IN  Only({like_on(a, activity_data, entry,
                      IF fallback /\ entry = NoUrl THEN CommentByUrl(a.d, object_url)
                      ELSE comment_by_id,
                      GetUrl(activity_data, "id")) :
                 entry \in {IF fallback THEN EntryByUrl(a.d, object_url)
                            ELSE entry_by_id}})

\* _process_like_activity once the author is resolved
like_of(a, activity_data, object_url) ==
    IF ~ a.ok \/ object_url = NoUrl THEN Out(a.d, FALSE, NoObject)
    ELSE Only({like_target(a, activity_data, object_url, object_uuid) :
                  object_uuid \in {parse_uuid_from_url(object_url)}})

\* the url posted under "object", NoUrl when the value is not a string
object_url_of(activity_data) ==
    IF "object" \notin DOMAIN activity_data THEN NoUrl
    ELSE IF IsDict(activity_data.object) THEN NoUrl
    ELSE activity_data.object.str

\* AuthorViewSet._process_like_activity
process_like_activity(d, activity_data, recipient) ==
    Only({like_of(a, activity_data, object_url) :
             a \in {get_or_create_author_from_activity(
                       d, GetDict(activity_data, "author"))},
             object_url \in {object_url_of(activity_data)}})

\* the Comment row _process_comment_activity writes, and the tables after it
comment_saved(a, activity_data, entry, comment_uuid, normalized_comment_url) ==
    LET by_url == {c \in a.d.comments : c.url = normalized_comment_url}
        old == IF comment_uuid # None
               THEN {c \in a.d.comments : c.id = comment_uuid}
               ELSE by_url
        comment == IF comment_uuid # None
                   THEN CommentRow(comment_uuid, normalized_comment_url, a.r,
                                   entry, GetStr(activity_data, "comment"))
                   ELSE IF by_url # {} THEN CHOOSE c \in by_url : TRUE
                   ELSE CommentRow(Fresh(a.d), normalized_comment_url, a.r,
                                   entry, GetStr(activity_data, "comment"))
    IN  Only({Out(d1, TRUE, CommentData(d1, comment)) :
                 d1 \in {[a.d EXCEPT !.comments = (@ \ old) \cup {comment},
                                     !.nextUuid =
                                        IF comment_uuid = None /\ by_url = {}
                                        THEN @ + 1 ELSE @]}})

\* _process_comment_activity once the commented entry is found
comment_on(a, activity_data, entry, comment_url) ==
    IF entry = NoUrl THEN Out(a.d, FALSE, NoObject)
    ELSE IF comment_url = NoUrl \/ normalize_raises(comment_url)
    THEN Out(a.d, FALSE, NoObject)
    ELSE Only({comment_saved(a, activity_data, entry, comment_uuid,
                             normalized_comment_url) :
                  comment_uuid \in {parse_uuid_from_url(comment_url)},
                  normalized_comment_url \in {normalized(comment_url)}})

\* _process_comment_activity once the author is resolved
comment_of(a, activity_data, entry_url, entry_uuid) ==
    IF ~ a.ok \/ entry_url = NoUrl THEN Out(a.d, FALSE, NoObject)
    ELSE Only({comment_on(a, activity_data,
                          IF entry_by_id # NoUrl THEN entry_by_id
                          ELSE EntryByUrl(a.d, entry_url),
                          GetUrl(activity_data, "id")) :
                  entry_by_id \in {IF entry_uuid = None THEN NoUrl
                                   ELSE EntryById(a.d, entry_uuid)}})

\* AuthorViewSet._process_comment_activity
process_comment_activity(d, activity_data, recipient) ==
    Only({comment_of(a, activity_data, entry_url,
                     IF entry_url = NoUrl THEN None
                     ELSE parse_uuid_from_url(entry_url)) :
             a \in {get_or_create_author_from_activity(
                       d, GetDict(activity_data, "author"))},
             entry_url \in {GetUrl(activity_data, "entry")}})

\* the Like _process_unlike_activity finds for the actor: by the uuid of the
\* like url, by the like url, by the entry or comment with the uuid of the
\* object url, by the entry or comment stored under the object url
like_to_undo(d, object_url, like_url, actor) ==
    LET like_uuid == IF like_url = NoUrl THEN None ELSE parse_uuid_from_url(like_url)
        object_uuid == parse_uuid_from_url(object_url)
        mine == {l \in d.likes : l.author = actor}
        on_entry(url) == {l \in mine : url # NoUrl /\ l.entry = url}
        on_comment(url) == {l \in mine : url # NoUrl /\ l.comment = url}
        tries == << {l \in mine : like_uuid # None /\ l.id = like_uuid},
                    {l \in mine : like_url # NoUrl /\ l.url = like_url},
                    IF object_uuid = None THEN {}
                    ELSE on_entry(EntryById(d, object_uuid)),
                    IF object_uuid = None THEN {}
                    ELSE on_comment(CommentById(d, object_uuid)),
                    on_entry(EntryByUrl(d, object_url)),
                    on_comment(CommentByUrl(d, object_url)) >>
        hits == {i \in 1..6 : tries[i] # {}}
    IN  IF hits = {} THEN {}
        ELSE tries[CHOOSE i \in hits : \A j \in hits : i <= j]

\* AuthorViewSet._process_unlike_activity
process_unlike_activity(d, like_data, actor) ==
    IF object_url_of(like_data) = NoUrl THEN Out(d, FALSE, NoObject)
    ELSE Only({Out([d EXCEPT !.likes = @ \ found], TRUE,
                   [type |-> "undo", object_type |-> "like",
                    actor |-> (CHOOSE a \in d.authors : a.url = actor).username,
                    object_url |-> object_url_of(like_data),
                    status |-> IF found # {} THEN "success"
                               ELSE "not_found_but_success"]) :
                  found \in {like_to_undo(d, object_url_of(like_data),
                                          GetUrl(like_data, "id"), actor)}})

\* AuthorViewSet._process_undo_activity
process_undo_activity(d, activity_data, recipient) ==
    Only({IF ~ a.ok \/ object_type = None THEN Out(a.d, FALSE, NoObject)
          ELSE IF object_type = "like"
          THEN process_unlike_activity(a.d, GetDict(activity_data, "object"), a.r)
          ELSE IF object_type = "follow"
          THEN Out(a.d, TRUE, [type |-> "undo", object_type |-> "follow",
                               status |-> "not_implemented"])
          ELSE Out(a.d, FALSE, NoObject) :
             a \in {get_or_create_author_from_activity(
                       d, GetDict(activity_data, "actor"))},
             object_type \in {GetStr(GetDict(activity_data, "object"), "type")}})

(***************************************************************************)
(* The inbox dispatcher                                                    *)
(***************************************************************************)
\* an Inbox row; id is the table's serial primary key
InboxRow(id, recipient, activity_type, object_data, raw_data) ==
    [id |-> id, recipient |-> recipient, activity_type |-> activity_type,
     object_data |-> object_data, raw_data |-> raw_data]

\* an Inbox row already holds this recipient, activity type and object data
InboxHas(items, recipient, activity_type, object_data) ==
    \E i \in items : /\ i.recipient = recipient
                     /\ i.activity_type = activity_type
                     /\ i.object_data = object_data

\* Inbox.objects.get_or_create(recipient=..., activity_type=..., object_data=...,
\* defaults={"raw_data": ...})
inbox_get_or_create(items, recipient, activity_type, object_data, raw_data) ==
    IF InboxHas(items, recipient, activity_type, object_data)
    THEN [items |-> items, created |-> FALSE]
    ELSE [items |-> items \cup {InboxRow(Cardinality(items) + 1, recipient,
                                         activity_type, object_data, raw_data)},
          created |-> TRUE]

\* the type dispatch of AuthorViewSet._post_to_inbox
process_activity(d, activity_data, recipient) ==
    CASE activity_data.type = "entry" -> process_entry_activity(d, activity_data)
      [] activity_data.type = "follow" -> process_follow_activity(d, activity_data, recipient)
      [] activity_data.type = "like" -> process_like_activity(d, activity_data, recipient)
      [] activity_data.type = "comment" -> process_comment_activity(d, activity_data, recipient)
      [] activity_data.type = "undo" -> process_undo_activity(d, activity_data, recipient)
      [] OTHER -> Out(d, FALSE, NoObject)

\* what post_to_inbox records of a request: the inbox owner and the payload
Delivery(recipient, data) == [recipient |-> recipient.url, data |-> data]

\* AuthorViewSet._post_to_inbox: POST /api/authors/{id}/inbox/
post_to_inbox(recipient, data) ==
    /\ recipient \in authors
    /\ IF ~ is_valid(data)
       THEN /\ response' = Resp("post_to_inbox", 400, None, Delivery(recipient, data), {})
            /\ UNCHANGED <<authors, follows, friendships, entries, likes, comments,
                           nextUuid, inbox>>
       ELSE \E o \in {process_activity(DB, validated_data(data), recipient)} :
            \E g \in {inbox_get_or_create(inbox, recipient.url, data.type, o.r, data)} :
                /\ o.d.nextUuid <= MaxFresh + 1
                /\ o.ok => Cardinality(g.items) <= MaxInbox
                /\ Commit(o.d)
                /\ IF ~ o.ok
                   THEN /\ response' = Resp("post_to_inbox", 400, None,
                                            Delivery(recipient, data), {})
                        /\ UNCHANGED inbox
                   ELSE /\ inbox' = g.items
                        /\ response' = Resp("post_to_inbox",
                                            IF g.created THEN 201 ELSE 200, None,
                                            Delivery(recipient, data), {})
    /\ UNCHANGED <<nodes, workers>>

(***************************************************************************)
(* Pulling the authors of a remote node                                    *)
(***************************************************************************)
\* some row refers to the author's url through a foreign key
Referenced(d, url) ==
    \/ \E f \in d.follows : f.follower = url \/ f.followed = url
    \/ \E r \in d.friendships : r.author1 = url \/ r.author2 = url
    \/ \E e \in d.entries : e.author = url
    \/ \E l \in d.likes : l.author = url
    \/ \E c \in d.comments : c.author = url

\* UUID(text) raises ValueError
UuidRaises(text) == ~ (Len(text) = 1 /\ text[1] \in UuidTokens)

\* AddNodeView._store_remote_author; a save that raises IntegrityError leaves
\* the tables as they were
store_remote_author(d, author_data, node) ==
    LET author_url == author_data.id
        author_id_str == LastSegment(author_url)
        author_id == author_id_str[1]
        existing == {a \in d.authors : a.id = author_id}
    IN  IF \/ author_url = NoUrl
           \/ RStripSlash(author_data.host) = <<>>
           \/ ~ Contains(RStripSlash(author_data.host), RStripSlash(node.host))
           \/ UuidRaises(author_id_str)
        THEN d
        ELSE IF existing # {}
        THEN LET a == CHOOSE a \in existing : TRUE
             IN  IF \/ \E b \in d.authors : b # a /\ b.url = author_url
                    \/ (a.url # author_url /\ Referenced(d, a.url))
                 THEN d
                 ELSE [d EXCEPT !.authors =
                          (@ \ {a}) \cup {[a EXCEPT !.url = author_url,
                                                    !.displayName = author_data.displayName,
                                                    !.node = node.id]}]
        ELSE IF \E b \in d.authors : \/ b.url = author_url
                                     \/ b.username = author_data.displayName
             THEN d
             ELSE [d EXCEPT !.authors =
                      @ \cup {AuthorRow(author_id, author_url, author_data.displayName,
                                        author_data.displayName, node.id, "!", FALSE)}]

\* RefreshNodeView.post: _fetch_and_store_remote_authors on the node's author
\* list, which holds author_data
RefreshNode(user, node, author_data) ==
    /\ user \in Users
    /\ user.is_staff
    /\ node \in nodes
    /\ \E d \in {store_remote_author(DB, author_data, node)} : Commit(d)
    /\ response' = Resp("RefreshNode", 200, None, None, {})
    /\ UNCHANGED <<nodes, inbox, workers>>

(***************************************************************************)
(* Activities delivered in the inbox specifications                        *)
(***************************************************************************)
\* the remote author as an activity names it, under a given spelling of its id
RemoteAuthorData(url) == [id |-> url, displayName |-> "Rx"]

\* a local author as a remote node names it
LocalAuthorData(a) == [id |-> a.url, displayName |-> a.displayName]

EntryActivity(url, author_url, title) ==
    [type |-> "entry", id |-> url, title |-> title,
     author |-> RemoteAuthorData(author_url)]

LikeActivity(url, author_url, object) ==
    [type |-> "like", id |-> url, author |-> RemoteAuthorData(author_url),
     object |-> [str |-> object]]

CommentActivity(url, author_url, entry, comment) ==
    [type |-> "comment", id |-> url, author |-> RemoteAuthorData(author_url),
     entry |-> entry, comment |-> comment]

\* a follow request from actor to object
FollowActivity(actor, object) ==
    [type |-> "follow", actor |-> actor, object |-> object]

\* the answer to the follow request of follower to followed: the follow as
\* FollowSerializer writes it, with response_type, and the pair named again
\* under the keys _process_follow_response reads
FollowResponse(follower, followed, response_type) ==
    [type |-> "follow", actor |-> follower, object |-> followed,
     response_type |-> response_type, follower |-> follower, followed |-> followed]

\* the undo of an activity the actor sent before
UndoActivity(actor_url, object) ==
    [type |-> "undo", actor |-> RemoteAuthorData(actor_url), object |-> object]

\* the member a remote node addresses
Addressee == CHOOSE a \in InitAuthors : a.id = "u1"

ObjectActivities ==
    { EntryActivity(RemoteEntryUrl, RemoteAuthorUrl, "t1"),
      EntryActivity(RemoteEntryUrlAlt, RemoteAuthorUrlAlt, "t1"),
      EntryActivity(RemoteEntryUrl, RemoteAuthorUrl, "t2"),
      LikeActivity(RemoteLikeUrl, RemoteAuthorUrl, RemoteEntryUrl),
      CommentActivity(RemoteCommentUrl, RemoteAuthorUrl, RemoteEntryUrl, "c1"),
      UndoActivity(RemoteAuthorUrl,
                   LikeActivity(RemoteLikeUrl, RemoteAuthorUrl, RemoteEntryUrl)) }

\* what the remote node's author list may hold for the remote author
PulledAuthors ==
    { [id |-> RemoteAuthorUrl, host |-> NodeHost \o <<"/">>, displayName |-> "Rx"],
      [id |-> RemoteAuthorUrlAlt, host |-> NodeHost \o <<"/">>, displayName |-> "Rx"],
      [id |-> RemoteAuthorUrl, host |-> <<"h", "t", "t", "p", ":", "/", "/", "x">>,
       displayName |-> "Rx"] }

NextInbox ==
    \/ \E data \in ObjectActivities : post_to_inbox(Addressee, data)
    \/ \E user \in authors, node \in nodes, author_data \in PulledAuthors :
          RefreshNode(user, node, author_data)

SpecInbox == Init /\ [][NextInbox]_vars

(***************************************************************************)
(* Redelivery                                                              *)
(***************************************************************************)
\* this step is an inbox delivery
Delivers == response'.op = "post_to_inbox"

\* this step delivers a payload that this inbox took in an earlier request
Redelivers ==
    /\ Delivers
    /\ \E i \in inbox : /\ i.recipient = response'.arg.recipient
                        /\ i.raw_data = response'.arg.data

\* the ids of the rows of a table
Ids(rows) == {r.id : r \in rows}

\* the rows of a table stored under a url
RowsAt(rows, url) == {r \in rows : r.url = url}

\* C3: delivering the same entry, like or comment activity (each carrying
\* its author) a second time creates no Author, Entry, Like or Comment row:
\* the author stays stored and one row holds the object the activity brought
C3_RedeliveryKeepsOneRecord ==
    [][(Redelivers /\ response'.arg.data.type \in {"entry", "like", "comment"})
        => /\ Ids(authors') = Ids(authors)
           /\ Cardinality(authors') = Cardinality(authors)
           /\ Ids(entries') = Ids(entries) /\ Cardinality(entries') = Cardinality(entries)
           /\ Ids(likes') = Ids(likes) /\ Cardinality(likes') = Cardinality(likes)
           /\ Ids(comments') = Ids(comments)
           /\ Cardinality(comments') = Cardinality(comments)
           /\ \E a \in authors' :
                 normalized(a.url) = normalized(response'.arg.data.author.id)
           /\ LET rows == CASE response'.arg.data.type = "entry" -> entries'
                            [] response'.arg.data.type = "like" -> likes'
                            [] OTHER -> comments'
              IN  Cardinality(RowsAt(rows, normalized(response'.arg.data.id))) = 1
           /\ response'.arg.data.type = "entry" =>
                 \A e \in RowsAt(entries', normalized(response'.arg.data.id)) :
                    e.title = response'.arg.data.title]_vars

\* the last request delivered a like activity that this inbox had taken
\* before, on an entry an earlier activity brought, and the like is stored
C3_Witness ==
    /\ response.op = "post_to_inbox"
    /\ response.status = 200
    /\ response.arg.data.type = "like"
    /\ \E i \in inbox : /\ i.recipient = response.arg.recipient
                        /\ i.raw_data = response.arg.data
    /\ RowsAt(likes, normalized(response.arg.data.id)) # {}

\* C4: posting to an inbox a payload it took before creates no Inbox row
\* and answers 200, so one Inbox row holds the payload for the recipient
C4_RedeliveryIsDuplicate ==
    [][Redelivers => (response'.status = 200 /\ inbox' = inbox)]_vars

\* C5: no two Author rows and no two Entry rows have urls with the same
\* normal form
C5_NoCosmeticDuplicates ==
    /\ \A a \in authors, b \in authors : normalized(a.url) = normalized(b.url) => a = b
    /\ \A e \in entries, f \in entries : normalized(e.url) = normalized(f.url) => e = f

\* this step delivers the undo of a like
DeliversUndoLike ==
    /\ Delivers
    /\ response'.arg.data.type = "undo"
    /\ response'.arg.data.object.type = "like"

\* C11: delivering the undo of a like of which no Like row is stored is
\* answered with a success status
C11_UndoOfMissingLikeSucceeds ==
    [][(DeliversUndoLike
        /\ RowsAt(likes, normalized(response'.arg.data.object.id)) = {})
       => response'.status \in {200, 201}]_vars

\* C12: after the undo of a like that is stored was delivered, no Like row
\* is stored under the like's url
C12_UndoRemovesLike ==
    [][(DeliversUndoLike
        /\ RowsAt(likes, normalized(response'.arg.data.object.id)) # {})
       => RowsAt(likes', normalized(response'.arg.data.object.id)) = {}]_vars

\* C18: a like or comment activity that is answered 400 leaves the Author,
\* Entry, Follow, Like and Comment rows as they were
C18_FailedActivityHasNoEffect ==
    [][(Delivers
        /\ response'.status = 400
        /\ response'.arg.data.type \in {"like", "comment"})
       => /\ authors' = authors
          /\ entries' = entries
          /\ follows' = follows
          /\ likes' = likes
          /\ comments' = comments]_vars

\* C19: an Author row that an inbox delivery inserts is remote and not local
C19_ResolvedAuthorIsRemote ==
    [][Delivers
       => \A a \in authors' :
             a.id \notin Ids(authors) => (is_remote(a) /\ ~ is_local(a))]_vars

(***************************************************************************)
(* Follow requests and their answers through the inbox                     *)
(***************************************************************************)
FollowActivities ==
    { FollowActivity(RemoteAuthorData(RemoteAuthorUrl), LocalAuthorData(Addressee)),
      FollowActivity(RemoteAuthorData(RemoteAuthorUrlAlt), LocalAuthorData(Addressee)),
      FollowResponse(LocalAuthorData(Addressee), RemoteAuthorData(RemoteAuthorUrl),
                     "Accept"),
      FollowResponse(LocalAuthorData(Addressee), RemoteAuthorData(RemoteAuthorUrl),
                     "Reject") }

NextInboxFollow ==
    \/ \E data \in FollowActivities : post_to_inbox(Addressee, data)
    \/ \E target \in AuthorByUrl(authors, RemoteAuthorUrl) :
          FollowCreate(Addressee, target.url)
    \/ \E f \in follows : accept(Addressee, f)
    \/ \E f \in follows : reject(Addressee, f)

SpecInboxFollow == Init /\ [][NextInboxFollow]_vars

\* the Follow rows from the author an activity names as actor to an author
FollowsFrom(fs, actor, followed) ==
    {f \in fs : normalized(f.follower) = normalized(actor.id) /\ f.followed = followed}

\* this step delivers a follow activity carrying response_type while a
\* Follow exists between the follower and the followed author it names
DeliversAnswer ==
    /\ Delivers
    /\ response'.arg.data.type = "follow"
    /\ "response_type" \in DOMAIN response'.arg.data
    /\ FollowOf(follows, response'.arg.data.follower.id,
                response'.arg.data.followed.id) # {}

\* C9: a follow activity with response_type Accept or Reject turns the
\* existing Follow between the named follower and followed authors to
\* ACCEPTED or REJECTED, and creates no Follow
C9_AnswerSetsStatus ==
    [][DeliversAnswer =>
          /\ \A f \in FollowOf(follows', response'.arg.data.follower.id,
                               response'.arg.data.followed.id) :
                f.status = IF response'.arg.data.response_type = "Accept"
                           THEN ACCEPTED ELSE REJECTED
          /\ Cardinality(follows') = Cardinality(follows)]_vars

\* this step delivers a follow request to the inbox of the author it names
\* as object, and the request is taken
DeliversRequest ==
    /\ Delivers
    /\ response'.arg.data.type = "follow"
    /\ "response_type" \notin DOMAIN response'.arg.data
    /\ response'.arg.data.object.id = response'.arg.recipient
    /\ response'.status \in {200, 201}

\* C10: a follow request leaves one Follow for the (follower, followed) pair:
\* a REQUESTING one where the pair had none, the existing one with its status
\* where the pair had one
C10_RequestIsIdempotent ==
    [][DeliversRequest =>
          LET before == FollowsFrom(follows, response'.arg.data.actor,
                                    response'.arg.recipient)
              after == FollowsFrom(follows', response'.arg.data.actor,
                                   response'.arg.recipient)
          IN  /\ Cardinality(after) = 1
              /\ before = {} => \A f \in after : f.status = REQUESTING
              /\ before # {} => after = before]_vars

\* the last request delivered again a follow request whose Follow had been
\* accepted since the first delivery
C10_Witness ==
    /\ response.op = "post_to_inbox"
    /\ response.status = 200
    /\ response.arg.data.type = "follow"
    /\ "response_type" \notin DOMAIN response.arg.data
    /\ response.arg.data.object.id = response.arg.recipient
    /\ \E f \in FollowsFrom(follows, response.arg.data.actor, response.arg.recipient) :
          f.status = ACCEPTED

\* this step delivers again a follow request whose Follow was accepted after
\* every earlier delivery of it
RedeliversAccepted ==
    /\ Redelivers
    /\ response'.arg.data.type = "follow"
    /\ "response_type" \notin DOMAIN response'.arg.data
    /\ \E f \in FollowsFrom(follows, response'.arg.data.actor, response'.arg.recipient) :
          f.status = ACCEPTED
    /\ \A i \in inbox :
          (i.recipient = response'.arg.recipient /\ i.raw_data = response'.arg.data)
             => i.object_data.status = REQUESTING

\* C28: a follow request delivered again after its Follow was accepted is
\* answered 200 and adds no Inbox row
C28_RedeliveryAfterChangeIsDuplicate ==
    [][RedeliversAccepted => (response'.status = 200 /\ inbox' = inbox)]_vars

(***************************************************************************)
(* Entries: creation, soft delete, likes and the read paths                *)
(***************************************************************************)
\* number of Entry rows local authors create
MaxEntries == 1

\* f"{SITE_URL}/api/authors/{author.id}/liked/{id}"
LocalLikeUrl(aid, id) == SITE_URL \o <<"/", "a", "/", aid, "/", "k", "/", id>>

\* request.user of a request without credentials
AnonymousUser == AuthorRow("", NoUrl, "", "", None, "", FALSE)

is_authenticated(user) == user # AnonymousUser

\* Friendship.objects.filter(Q(author1=a, author2=b) | Q(author1=b, author2=a)).exists()
is_friend(d, a, b) == FriendshipRow(d.friendships, a, b)

\* EntryManager.visible_to_author
visible_to_author(d, viewing_author) ==
    IF viewing_author = AnonymousUser
    THEN {e \in d.entries : e.visibility = PUBLIC /\ e.visibility # DELETED}
    ELSE {e \in d.entries :
            /\ \/ e.visibility = PUBLIC
               \/ (e.visibility = UNLISTED /\ e.author = viewing_author.url)
               \/ /\ e.visibility = UNLISTED
                  /\ \/ AcceptedFollow(d.follows, viewing_author.url, e.author)
                     \/ is_friend(d, viewing_author.url, e.author)
               \/ (e.visibility = FRIENDS_ONLY /\ e.author = viewing_author.url)
               \/ /\ e.visibility = FRIENDS_ONLY
                  /\ is_friend(d, viewing_author.url, e.author)
            /\ e.visibility # DELETED}

\* the lookups of EntryViewSet.get_object: by id, then a remote entry whose
\* url contains the id
Lookup(d, lookup_value) ==
    IF \E e \in d.entries : e.id = lookup_value
    THEN {e \in d.entries : e.id = lookup_value}
    ELSE LET possible_entries ==
                 {e \in d.entries :
                     /\ Contains(e.url, <<lookup_value>>)
                     /\ \E a \in AuthorByUrl(d.authors, e.author) : is_remote(a)}
         IN  IF possible_entries = {} THEN {}
             ELSE {CHOOSE e \in possible_entries : TRUE}

\* the permission block of EntryViewSet.get_object for a read of obj by user
can_view(d, user, obj) ==
    \/ user.is_staff
    \/ obj.visibility = PUBLIC
    \/ obj.visibility = UNLISTED
    \/ /\ is_authenticated(user)
       /\ obj.visibility = FRIENDS_ONLY
       /\ \/ obj.author = user.url
          \/ is_friend(d, obj.author, user.url)

\* the permission block of EntryViewSet.get_object for PATCH, PUT and DELETE
can_edit(user, obj) ==
    \/ user.is_staff
    \/ (is_authenticated(user) /\ obj.author = user.url)

\* EntryViewSet.get_object: the status (200, 403 PermissionDenied, 404
\* NotFound) and the entry
get_object(d, user, method, lookup_value) ==
    LET found == Lookup(d, lookup_value)
        obj == CHOOSE e \in found : TRUE
    IN  IF found = {} THEN [status |-> 404, obj |-> {}]
        ELSE IF method = "GET"
             THEN IF can_view(d, user, obj) THEN [status |-> 200, obj |-> {obj}]
                  ELSE [status |-> 403, obj |-> {}]
             ELSE IF can_edit(user, obj) THEN [status |-> 200, obj |-> {obj}]
                  ELSE [status |-> 403, obj |-> {}]

\* a read leaves every table as it was
Reads(op, status, user, out) ==
    /\ response' = Resp(op, status, user, None, out)
    /\ UNCHANGED <<authors, nodes, follows, friendships, entries, likes, comments,
                   inbox, nextUuid, workers>>

\* how one requests.post ends: a 2xx answer, another answer, an exception
\* (timeout, refused connection)
Outcomes == {"ok", "refused", "raised"}

\* Author.objects.filter(node__isnull=False), as urls
remote_authors(d) == {a.url : a \in {b \in d.authors : b.node # None}}

\* the request _send_to_remote_authors posts for one remote author
Push(entry, remote_author, outcome) ==
    [recipient |-> remote_author,
     url |-> RStripSlash(remote_author) \o <<"/", "i", "/">>,
     activity |-> [type |-> "entry", id |-> entry.url, title |-> entry.title,
                   visibility |-> entry.visibility],
     outcome |-> outcome]

\* EntryViewSet._send_to_remote_authors: the loop posts to each remote author
\* and goes on to the next after an exception or a non-2xx answer
send_to_remote_authors(d, entry, outcomes) ==
    {Push(entry, a, outcomes[a]) : a \in remote_authors(d)}

\* an exception of a delivery leaves _send_to_remote_authors
delivery_aborts_on_raise(sent) == \E p \in sent : p.outcome = "raised"

\* no exception leaves _send_to_remote_authors: the loop body and the whole
\* method catch Exception
delivery_aborts(sent) == FALSE

\* the answer of a handler that saved an entry and then called
\* _send_to_remote_authors
Written(op, status, user, arg, out, sent) ==
    response' = [Resp(op, IF delivery_aborts(sent) THEN 500 ELSE status, user, arg,
                      IF delivery_aborts(sent) THEN {} ELSE out)
                 EXCEPT !.sent = sent]

\* EntryViewSet.create / perform_create / Entry.save
create(user, title, visibility) ==
    /\ user \in Users
    /\ Cardinality(entries) < MaxEntries
    /\ nextUuid <= MaxFresh
    /\ \E entry \in {EntryRow(Fresh(DB), LocalEntryUrl(user.id, Fresh(DB)), user.url,
                               title, visibility)} :
       \E outcomes \in [remote_authors(DB) -> Outcomes] :
          /\ Commit([DB EXCEPT !.entries = @ \cup {entry}, !.nextUuid = @ + 1])
          /\ Written("create", 201, user, None, {entry},
                     send_to_remote_authors(DB, entry, outcomes))
    /\ UNCHANGED <<nodes, inbox, workers>>

\* EntryViewSet.partial_update (PATCH) and EntryViewSet.update (PUT)
partial_update(user, lookup_value, title, visibility) ==
    /\ user \in Users
    /\ \E g \in {get_object(DB, user, "PATCH", lookup_value)} :
          IF g.status # 200
          THEN /\ response' = Resp("partial_update", g.status, user, lookup_value, {})
               /\ UNCHANGED <<authors, follows, friendships, entries, likes,
                              comments, nextUuid>>
          ELSE \E old \in g.obj :
               \E entry \in {[old EXCEPT !.title = title, !.visibility = visibility]} :
               \E outcomes \in [remote_authors(DB) -> Outcomes] :
                  /\ Commit([DB EXCEPT !.entries = (@ \ {old}) \cup {entry}])
                  /\ Written("partial_update", 200, user, lookup_value, {entry},
                             send_to_remote_authors(DB, entry, outcomes))
    /\ UNCHANGED <<nodes, inbox, workers>>

\* EntryViewSet.destroy: the soft delete
destroy(user, lookup_value) ==
    /\ user \in Users
    /\ \E g \in {get_object(DB, user, "DELETE", lookup_value)} :
          IF g.status # 200
          THEN /\ response' = Resp("destroy", g.status, user, lookup_value, {})
               /\ UNCHANGED <<authors, follows, friendships, entries, likes,
                              comments, nextUuid>>
          ELSE \E old \in g.obj :
               \E entry \in {[old EXCEPT !.visibility = DELETED]} :
               \E outcomes \in [remote_authors(DB) -> Outcomes] :
                  /\ Commit([DB EXCEPT !.entries = (@ \ {old}) \cup {entry}])
                  /\ Written("destroy", 204, user, lookup_value, {},
                             send_to_remote_authors(DB, entry, outcomes))
    /\ UNCHANGED <<nodes, inbox, workers>>

\* entry.delete(): the row, and by on_delete=CASCADE the likes and comments
\* of the entry and the likes of those comments
delete_entry(d, entry) ==
    [d EXCEPT !.entries = @ \ {entry},
              !.comments = {c \in @ : c.entry # entry.url},
              !.likes = {l \in @ :
                           /\ l.entry # entry.url
                           /\ \A c \in d.comments :
                                 c.entry = entry.url => l.comment # c.url}]

\* EntryViewSet.delete_author_entry: DELETE /api/authors/{id}/entries/{id}/
delete_author_entry(user, author_id, entry_id) ==
    /\ user \in Users
    /\ \E found \in {{e \in entries :
                         /\ e.id = entry_id
                         /\ \E a \in AuthorByUrl(authors, e.author) : a.id = author_id}} :
          IF found = {}
          THEN /\ response' = Resp("delete_author_entry", 404, user, entry_id, {})
               /\ UNCHANGED <<authors, follows, friendships, entries, likes,
                              comments, nextUuid>>
          ELSE \E entry \in found :
               IF user.url # entry.author /\ ~ user.is_staff
               THEN /\ response' = Resp("delete_author_entry", 403, user, entry_id, {})
                    /\ UNCHANGED <<authors, follows, friendships, entries, likes,
                                   comments, nextUuid>>
               ELSE /\ Commit(delete_entry(DB, entry))
                    /\ response' = Resp("delete_author_entry", 204, user, entry_id, {})
    /\ UNCHANGED <<nodes, inbox, workers>>

\* EntryLikeView.post
like_post(user, entry_id) ==
    LET found == {e \in entries : e.id = entry_id}
        entry == CHOOSE e \in found : TRUE
        id == Fresh(DB)
        like == LikeRow(id, LocalLikeUrl(user.id, id), user.url, entry.url, NoUrl)
    IN  /\ user \in Users
        /\ IF found = {}
           THEN /\ response' = Resp("like_post", 404, user, None, {})
                /\ UNCHANGED <<authors, follows, friendships, entries, likes,
                               comments, nextUuid>>
           ELSE IF \E l \in likes : l.author = user.url /\ l.entry = entry.url
           THEN /\ response' = Resp("like_post", 200, user, None, {})
                /\ UNCHANGED <<authors, follows, friendships, entries, likes,
                               comments, nextUuid>>
           ELSE /\ nextUuid <= MaxFresh
                /\ Commit([DB EXCEPT !.likes = @ \cup {like}, !.nextUuid = @ + 1])
                /\ response' = Resp("like_post", 201, user, None, {})
        /\ UNCHANGED <<nodes, inbox, workers>>

\* EntryViewSet.retrieve
retrieve(user, lookup_value) ==
    LET g == get_object(DB, user, "GET", lookup_value)
    IN  Reads("retrieve", g.status, user, g.obj)

\* EntryViewSet.get_queryset without an author filter
get_queryset(d, user) ==
    IF user.is_staff THEN {e \in d.entries : e.visibility # DELETED}
    ELSE visible_to_author(d, user)

\* EntryViewSet.list
list(user) ==
    /\ user \in Users
    /\ Reads("list", 200, user, get_queryset(DB, user))

\* EntryViewSet.liked_entries
liked_entries(user) ==
    /\ user \in Users
    /\ Reads("liked_entries", 200, user,
             {e \in entries : \E l \in likes : l.author = user.url /\ l.entry = e.url})

\* EntryViewSet.feed_entries
feed_entries(user) ==
    LET following_ids == {f.followed : f \in {g \in follows :
                              g.follower = user.url /\ g.status = ACCEPTED}}
        followers_ids == {f.follower : f \in {g \in follows :
                              g.followed = user.url /\ g.status = ACCEPTED}}
        friends_ids == following_ids \cap followers_ids
    IN  /\ user \in Users
        /\ Reads("feed_entries", 200, user,
                 {e \in entries : e.author \in friends_ids /\ e.visibility # DELETED})

\* EntryViewSet.get_entry_by_url
get_entry_by_url(user, entry_url) ==
    LET found == {e \in entries : e.url = entry_url}
    IN  /\ user \in Users
        /\ Reads("get_entry_by_url", IF found = {} THEN 404 ELSE 200, user, found)

\* EntryViewSet.retrieve_by_fqid
retrieve_by_fqid(user, entry_fqid) ==
    LET by_url == IF StartsWith(entry_fqid, HTTP)
                  THEN {e \in entries : e.url = entry_fqid} ELSE {}
        entry_id == IF Contains(entry_fqid, <<"/">>) THEN LastSegment(entry_fqid)
                    ELSE entry_fqid
        g == get_object(DB, user, "GET", entry_id[1])
    IN  /\ user \in Users
        /\ IF by_url # {} THEN Reads("retrieve_by_fqid", 200, user, by_url)
           ELSE IF UuidRaises(entry_id) THEN Reads("retrieve_by_fqid", 400, user, {})
           \* PermissionDenied and NotFound fall to the handler's except Exception
           ELSE IF g.status # 200 THEN Reads("retrieve_by_fqid", 500, user, {})
           ELSE Reads("retrieve_by_fqid", 200, user, g.obj)

\* EntryViewSet.retrieve_author_entry
retrieve_author_entry(user, author_id, entry_id) ==
    LET found == {e \in entries :
                     /\ e.id = entry_id
                     /\ \E a \in AuthorByUrl(authors, e.author) : a.id = author_id}
    IN  /\ user \in Users
        /\ IF found = {} THEN Reads("retrieve_author_entry", 404, user, {})
           ELSE IF found \subseteq visible_to_author(DB, user)
           THEN Reads("retrieve_author_entry", 200, user, found)
           ELSE Reads("retrieve_author_entry", 404, user, {})

\* the ids a caller asks for: those of the stored entries and one of no entry
AskedIds == {e.id : e \in entries} \cup {"u9"}

\* who sends a read: an account of this node, or nobody
Viewers == Users \cup {AnonymousUser}

NextRead ==
    \/ \E user \in Members, visibility \in {PUBLIC, UNLISTED, FRIENDS_ONLY} :
          create(user, "t1", visibility)
    \/ \E user \in Users, id \in AskedIds : destroy(user, id)
    \/ \E user \in Users, id \in AskedIds : like_post(user, id)
    \/ \E user \in Users, author \in Members, foreign \in Members :
          follower_detail_put(user, author, foreign)
    \/ \E user \in Users, author \in Members, foreign \in Members :
          follower_detail_delete(user, author, foreign)
    \/ \E user \in Viewers, id \in AskedIds : retrieve(user, id)
    \/ \E user \in Users : list(user)
    \/ \E user \in Users : liked_entries(user)
    \/ \E user \in Users : feed_entries(user)
    \/ \E user \in Users, e \in entries : get_entry_by_url(user, e.url)
    \/ \E user \in Users, e \in entries : retrieve_by_fqid(user, e.url)
    \/ \E user \in Users, id \in AskedIds : retrieve_by_fqid(user, <<id>>)
    \/ \E user \in Users, a \in Members, id \in AskedIds :
          retrieve_author_entry(user, a.id, id)

SpecRead == Init /\ [][NextRead]_vars

\* the operations that answer a GET with entries
ReadOps == {"retrieve", "list", "liked_entries", "feed_entries", "get_entry_by_url",
            "retrieve_by_fqid", "retrieve_author_entry"}

\* the entries the last request returned, when it was a read
Returned == IF response.op \in ReadOps THEN response.out ELSE {}

\* C6: no read returns an entry whose visibility is DELETED to a viewer who
\* is not staff, the entry's author included
C6_DeletedNeverReturned ==
    \A e \in Returned : e.visibility = DELETED => response.user.is_staff

\* C7: a read returns a FRIENDS_ONLY entry only to its author or to a viewer
\* who has a Friendship row with the author, and never to an anonymous viewer
\* (staff aside)
C7_FriendsOnlyToFriends ==
    \A e \in Returned :
        (e.visibility = FRIENDS_ONLY /\ ~ response.user.is_staff) =>
            /\ is_authenticated(response.user)
            /\ \/ e.author = response.user.url
               \/ FriendshipRow(friendships, response.user.url, e.author)

\* C8: an entry an operation returns to a caller is one the visibility rules
\* show to that caller
C8_EveryReadResolved ==
    \A e \in (IF response.op \in ReadOps \cup {"create"} THEN response.out ELSE {}) :
        can_view(DB, response.user, e)

\* C21: an UNLISTED entry asked for by its id, or by its author's id and its
\* id, is returned with status 200 to every viewer, anonymous viewers included
C21_UnlistedByLinkIsVisible ==
    [][\A e \in entries :
          e.visibility = UNLISTED =>
             /\ \A user \in Viewers :
                   retrieve(user, e.id)
                      => (response'.status = 200 /\ response'.out = {e})
             /\ \A user \in Users, a \in AuthorByUrl(authors, e.author) :
                   retrieve_author_entry(user, a.id, e.id)
                      => (response'.status = 200 /\ response'.out = {e})]_vars

(***************************************************************************)
(* Entries written here and pushed to remote inboxes                       *)
(***************************************************************************)
\* UpdateNodeView.put with the node's own host: the node takes the posted
\* isAuth, then the node's author list is fetched again; fetched holds the
\* author the list names, and is empty when the fetch fails
UpdateNode(user, node, is_auth, fetched) ==
    /\ user \in Users
    /\ user.is_staff
    /\ node \in nodes
    /\ nodes' = (nodes \ {node}) \cup {[node EXCEPT !.is_active = is_auth]}
    /\ \E d \in {IF fetched = {} THEN DB
                 ELSE store_remote_author(DB, CHOOSE a \in fetched : TRUE, node)} :
          Commit(d)
    /\ response' = Resp("UpdateNode", 200, user, None, {})
    /\ UNCHANGED <<inbox, workers>>

NextOutbound ==
    \/ \E user \in authors, node \in nodes, is_auth \in BOOLEAN,
          fetched \in {{}} \cup {{a} : a \in {p \in PulledAuthors :
                                                 /\ p.id = RemoteAuthorUrl
                                                 /\ StartsWith(p.host, NodeHost)}} :
          UpdateNode(user, node, is_auth, fetched)
    \/ post_to_inbox(Addressee, FollowActivity(RemoteAuthorData(RemoteAuthorUrl),
                                               LocalAuthorData(Addressee)))
    \/ create(Addressee, "t1", PUBLIC)
    \/ \E user \in Members, id \in AskedIds : partial_update(user, id, "t2", PUBLIC)
    \/ \E user \in Members, id \in AskedIds : destroy(user, id)
    \/ \E user \in Members, id \in AskedIds :
          delete_author_entry(user, Addressee.id, id)
    \/ \E id \in AskedIds : like_post(Addressee, id)
    \/ \E user \in Members \ {Addressee}, id \in AskedIds : retrieve(user, id)

SpecOutbound == Init /\ [][NextOutbound]_vars

\* the handlers that save a local entry and then push it
EntryWrites == {"create", "partial_update", "destroy"}

\* C13: a create, update or soft delete of a local entry posts to the inbox
\* of every stored author whose home is another node, whatever the outcome
\* of the other posts
C13_EveryRemoteAuthorIsSent ==
    [][(response'.op \in EntryWrites /\ response'.status \in {200, 201, 204})
       => \A a \in authors :
             ~ StartsWith(a.url, SITE_URL)
             => \E p \in response'.sent : p.recipient = a.url]_vars

\* C14: a create, update or soft delete that pushed to remote inboxes is
\* answered with its success status and the entry it wrote is stored,
\* whatever the outcomes of the pushes
C14_WriteSucceedsWhateverDeliveries ==
    [][(response'.op \in EntryWrites /\ response'.sent # {})
       => /\ response'.status \in {200, 201, 204}
          /\ response'.op \in {"create", "partial_update"}
             => (response'.out # {} /\ response'.out \subseteq entries')
          /\ response'.op = "destroy"
             => \E e \in entries' : e.id = response'.arg /\ e.visibility = DELETED]_vars

\* an entry was created while every push of it failed, and it is stored
C14_Witness ==
    /\ response.op = "create"
    /\ response.status = 201
    /\ response.sent # {}
    /\ \A p \in response.sent : p.outcome # "ok"
    /\ response.out # {}
    /\ response.out \subseteq entries

\* C15: after a delete of an entry was answered 204 the entry's row is
\* stored with visibility DELETED, and every like and comment of the entry
\* is still stored
C15_DeleteKeepsRow ==
    [][(response'.op \in {"destroy", "delete_author_entry"} /\ response'.status = 204)
       => /\ \E e \in entries' : e.id = response'.arg /\ e.visibility = DELETED
          /\ \A e \in entries :
                e.id = response'.arg
                => /\ {l \in likes : l.entry = e.url} \subseteq likes'
                   /\ {c \in comments : c.entry = e.url} \subseteq comments']_vars

\* C16: no request is posted to the inbox of an author whose node is
\* inactive
C16_NoPushToInactiveNode ==
    [][\A p \in response'.sent :
          \A a \in AuthorByUrl(authors, p.recipient) :
             \A n \in nodes : n.id = a.node => n.is_active]_vars

(***************************************************************************)
(* Two deliveries of one activity at the same time                         *)
(*                                                                         *)
(* Each statement a request sends to the database is one step; between     *)
(* its SELECT and its INSERT the other request may run.  update_or_create  *)
(* and get_or_create are Django's: SELECT; when no row is found INSERT;    *)
(* when the INSERT raises IntegrityError SELECT again and go on with the   *)
(* row found.                                                              *)
(***************************************************************************)
\* the activity both requests deliver, and the inbox they deliver it to
RaceActivity == EntryActivity(RemoteEntryUrl, RemoteAuthorUrl, "t1")

\* unique=True on url: a row of the table holds the url
url_never_taken(rows, url) == FALSE

url_taken(rows, url) == \E r \in rows : r.url = url

\* Author.objects.create(url=..., username=..., displayName=...)
create_author(d, url, username, displayName) ==
    Out([d EXCEPT !.authors = @ \cup {AuthorRow(Fresh(d), url, username,
                                                displayName, None, "", FALSE)},
                  !.nextUuid = @ + 1], TRUE, url)

\* Entry.objects.create(url=..., author=..., title=..., visibility=...)
create_entry(d, url, author, title, visibility) ==
    Out([d EXCEPT !.entries = @ \cup {EntryRow(Fresh(d), url, author, title,
                                               visibility)},
                  !.nextUuid = @ + 1], TRUE, url)

\* the request reaches _post_to_inbox and its activity is valid
Receive(w) ==
    /\ workers[w].pc = "idle"
    /\ is_valid(RaceActivity)
    /\ workers' = [workers EXCEPT ![w].pc = "author_get"]
    /\ UNCHANGED <<authors, nodes, follows, friendships, entries, likes, comments,
                   inbox, nextUuid, response>>

\* the SELECT of Author.objects.update_or_create(url=normalized_url)
AuthorGet(w) ==
    /\ workers[w].pc = "author_get"
    /\ workers' = [workers EXCEPT
                      ![w].pc = "author_write",
                      ![w].found = url_taken(authors,
                                             normalized(RaceActivity.author.id))]
    /\ UNCHANGED <<authors, nodes, follows, friendships, entries, likes, comments,
                   inbox, nextUuid, response>>

\* the request ends with the status and leaves the tables d
Answer(w, d, status) ==
    /\ Commit(d)
    /\ workers' = [workers EXCEPT ![w].pc = "done", ![w].status = status]
    /\ response' = Resp("post_to_inbox", status, None,
                        Delivery(Addressee, RaceActivity), {})

\* the rest of update_or_create for the author: the INSERT when the SELECT
\* found no row, the UPDATE when it found one or the INSERT was refused;
\* then the except branch of _get_or_create_author_from_activity
AuthorWrite(w) ==
    /\ workers[w].pc = "author_write"
    /\ \E author_data \in {RaceActivity.author} :
       \E url \in {normalized(author_data.id)} :
       \E refused \in {\/ url_taken(authors, url)
                       \/ \E a \in authors :
                             a.username = activity_username(author_data)} :
       \E o \in {IF ~ workers[w].found /\ ~ refused
                 THEN create_author(DB, url, activity_username(author_data),
                                    author_data.displayName)
                 ELSE update_or_create_author(DB, url,
                                              activity_username(author_data),
                                              author_data.displayName)} :
       \E a \in {author_after_update(DB, author_data, url, o)} :
          /\ a.d.nextUuid <= MaxFresh + 1
          /\ IF ~ a.ok
             THEN Answer(w, a.d, 400)
             ELSE /\ Commit(a.d)
                  /\ workers' = [workers EXCEPT
                                    ![w].pc = "entry_get",
                                    ![w].author = a.r,
                                    ![w].lost = ~ workers[w].found /\ refused]
                  /\ UNCHANGED response
    /\ UNCHANGED <<nodes, inbox>>

\* the SELECT of Entry.objects.update_or_create(url=normalized_entry_url)
EntryGet(w) ==
    /\ workers[w].pc = "entry_get"
    /\ workers' = [workers EXCEPT
                      ![w].pc = "entry_write",
                      ![w].found = url_taken(entries, normalized(RaceActivity.id))]
    /\ UNCHANGED <<authors, nodes, follows, friendships, entries, likes, comments,
                   inbox, nextUuid, response>>

\* the rest of update_or_create for the entry
EntryWrite(w) ==
    /\ workers[w].pc = "entry_write"
    /\ \E url \in {normalized(RaceActivity.id)} :
       \E refused \in {url_taken(entries, url)} :
       \E o \in {IF ~ workers[w].found /\ ~ refused
                 THEN create_entry(DB, url, workers[w].author,
                                   RaceActivity.title, PUBLIC)
                 ELSE entry_at(Out(DB, TRUE, workers[w].author),
                               validated_data(RaceActivity), url)} :
          /\ o.d.nextUuid <= MaxFresh + 1
          /\ Commit(o.d)
          /\ workers' = [workers EXCEPT
                            ![w].pc = "inbox_get",
                            ![w].entry = o.r,
                            ![w].lost = @ \/ (~ workers[w].found /\ refused)]
    /\ UNCHANGED <<nodes, inbox, response>>

\* EntrySerializer(entry).data, then the SELECT of Inbox.objects.get_or_create;
\* get raises MultipleObjectsReturned when two rows match
InboxGet(w) ==
    /\ workers[w].pc = "inbox_get"
    /\ \E object_data \in {EntryData(DB, CHOOSE e \in entries :
                                            e.url = workers[w].entry)} :
       \E matching \in {{i \in inbox : /\ i.recipient = Addressee.url
                                       /\ i.activity_type = "entry"
                                       /\ i.object_data = object_data}} :
          IF Cardinality(matching) > 1
          THEN Answer(w, DB, 500)
          ELSE /\ workers' = [workers EXCEPT ![w].pc = "inbox_write",
                                             ![w].found = matching # {},
                                             ![w].object = object_data]
               /\ UNCHANGED <<authors, follows, friendships, entries, likes,
                              comments, nextUuid, response>>
    /\ UNCHANGED <<nodes, inbox>>

\* the INSERT of Inbox.objects.get_or_create when the SELECT found no row,
\* and the answer of _post_to_inbox
InboxWrite(w) ==
    /\ workers[w].pc = "inbox_write"
    /\ IF workers[w].found
       THEN /\ Answer(w, DB, 200)
            /\ UNCHANGED inbox
       ELSE /\ Cardinality(inbox) < MaxInbox
            /\ inbox' = inbox \cup {InboxRow(Cardinality(inbox) + 1, Addressee.url,
                                             "entry", workers[w].object,
                                             RaceActivity)}
            /\ Answer(w, DB, 201)
    /\ UNCHANGED nodes

\* deliveries that were answered before the two requests arrive
Earlier ==
    { RaceActivity,
      EntryActivity(RemoteEntryUrl, RemoteAuthorUrl, "t2"),
      FollowActivity(RemoteAuthorData(RemoteAuthorUrl), LocalAuthorData(Addressee)) }

NextRace ==
    \/ /\ \A w \in Workers : workers[w].pc = "idle"
       /\ \E data \in Earlier : post_to_inbox(Addressee, data)
    \/ \E w \in Workers : Receive(w)
    \/ \E w \in Workers : AuthorGet(w)
    \/ \E w \in Workers : AuthorWrite(w)
    \/ \E w \in Workers : EntryGet(w)
    \/ \E w \in Workers : EntryWrite(w)
    \/ \E w \in Workers : InboxGet(w)
    \/ \E w \in Workers : InboxWrite(w)

SpecRace == Init /\ [][NextRace]_vars

\* C17: when both requests have been answered, each was answered with a
\* success status, one Author row holds the author's url and one Entry row
\* holds the entry's url
C17_RaceLeavesOneRecord ==
    (\A w \in Workers : workers[w].pc = "done")
    => /\ \A w \in Workers : workers[w].status \in {200, 201}
       /\ Cardinality(RowsAt(authors, normalized(RaceActivity.author.id))) = 1
       /\ Cardinality(RowsAt(entries, normalized(RaceActivity.id))) = 1

\* both requests were answered and one of them had an INSERT refused
C17_Witness ==
    /\ \A w \in Workers : workers[w].pc = "done"
    /\ \E w \in Workers : workers[w].lost
    /\ \A w \in Workers : workers[w].status \in {200, 201}
    /\ Cardinality(RowsAt(entries, normalized(RaceActivity.id))) = 1

(***************************************************************************)
(* normalize_author_url applied to its own result                          *)
(***************************************************************************)
\* how many times in a row normalize_author_url is applied
MaxApply == 2

UrlSchemes == {HTTP, <<"H", "T", "T", "P">>, HTTPS}

UrlUsers == {<<>>, <<"a", "@">>, <<"a", ":", "p", "@">>}

UrlHosts == {<<"n">>, <<"N">>, <<"[", ":", ":", "8", "]">>}

UrlPorts == {<<>>, <<":", "8", "0">>, <<":", "4", "4", "3">>, <<":", "8", "0", "8", "0">>}

UrlPaths == {<<>>, <<"/">>, <<"/", "a">>, <<"/", "a", "/">>}

UrlTails == {<<>>, <<"?", "x">>, <<"#", "x">>}

\* absolute http and https URLs, and two references without a scheme
Urls ==
    {s \o <<":", "/", "/">> \o u \o h \o p \o q \o t :
        s \in UrlSchemes, u \in UrlUsers, h \in UrlHosts, p \in UrlPorts,
        q \in UrlPaths, t \in UrlTails}
    \cup {<<"n", "/", "a">>, <<"/", "a", "/">>}

\* a URL string is at hand, nothing has been called
InitNormalize ==
    /\ workers = [w \in Workers |-> Idle]
    /\ authors = InitAuthors
    /\ nodes = InitNodes
    /\ follows = {}
    /\ friendships = {}
    /\ entries = {}
    /\ likes = {}
    /\ comments = {}
    /\ inbox = {}
    /\ nextUuid = 1
    /\ \E url \in Urls : response = Resp("init", 0, None, None, {url})

\* normalize_author_url(url) on the string at hand: the result of the last
\* call, the URL drawn at the start before any call; status 500 and no result
\* when the call raises
Normalize ==
    /\ response.op \in {"init", "normalize_author_url"}
    /\ response.out # {}
    /\ \E url \in response.out, calls \in 1..MaxApply :
          /\ calls = (IF response.op = "init" THEN 1 ELSE response.arg.calls + 1)
          /\ response' =
                IF NormalizeRaises(url)
                THEN Resp("normalize_author_url", 500, None,
                          [url |-> url, calls |-> calls], {})
                ELSE Resp("normalize_author_url", 200, None,
                          [url |-> url, calls |-> calls],
                          {normalize_author_url(url)})
    /\ UNCHANGED <<authors, nodes, follows, friendships, entries, likes,
                   comments, inbox, nextUuid, workers>>

NextNormalize == Normalize

SpecNormalize == InitNormalize /\ [][NextNormalize]_vars

\* C20: normalize_author_url applied to a result of normalize_author_url
\* returns that result
C20_NormalizeIdempotent ==
    (response.op = "normalize_author_url" /\ response.arg.calls >= 2)
        => response.out = {response.arg.url}

(***************************************************************************)
(* Activities that name authors and entries of this node                   *)
(***************************************************************************)
\* the member a follow request names while it is posted to another inbox
Neighbour == CHOOSE a \in InitAuthors : a.id = "u2"

\* the first entry the addressee creates, as a remote node names it, under
\* another title and another display name of its author
LocalEntryActivity ==
    [type |-> "entry", id |-> LocalEntryUrl(Addressee.id, FreshUuids[1]),
     title |-> "t2", author |-> [id |-> Addressee.url, displayName |-> "Rx"]]

LocalNamed ==
    { FollowActivity(LocalAuthorData(Addressee), LocalAuthorData(Addressee)),
      FollowActivity(RemoteAuthorData(RemoteAuthorUrl), LocalAuthorData(Neighbour)),
      LocalEntryActivity }

NextInboxLocal ==
    \/ \E recipient \in AuthorByUrl(authors, Addressee.url), data \in LocalNamed :
          post_to_inbox(recipient, data)
    \/ \E user \in AuthorByUrl(authors, Addressee.url) : create(user, "t1", PUBLIC)
    \/ \E user \in AuthorByUrl(authors, Addressee.url), id \in AskedIds :
          destroy(user, id)
    \/ \E user \in AuthorByUrl(authors, Addressee.url), f \in follows :
          accept(user, f)
    \/ \E user \in authors, node \in nodes,
          author_data \in {p \in PulledAuthors : /\ p.id = RemoteAuthorUrl
                                                 /\ StartsWith(p.host, NodeHost)} :
          RefreshNode(user, node, author_data)
    \/ \E user \in AuthorByUrl(authors, Addressee.url),
          target \in AuthorByUrl(authors, RemoteAuthorUrl) :
          follow(user, target)

SpecInboxLocal == Init /\ [][NextInboxLocal]_vars

\* C22: no Follow row has the same author as follower and followed
C22_NoSelfFollow == \A f \in follows : f.follower # f.followed

\* C25: a Follow becomes ACCEPTED only in a request of the followed author
\* (or of staff) that accepts it, or in the delivery of an Accept answer
C25_AcceptedOnlyByFollowed ==
    [][\A f \in follows' :
          (f.status = ACCEPTED /\ f \notin follows) =>
             \/ \E user \in authors, g \in follows :
                   /\ user.url = f.followed \/ user.is_staff
                   /\ g.follower = f.follower
                   /\ g.followed = f.followed
                   /\ accept(user, g)
             \/ \E user \in authors, author \in authors, foreign \in authors :
                   /\ user.url = f.followed \/ user.is_staff
                   /\ author.url = f.followed
                   /\ foreign.url = f.follower
                   /\ follower_detail_put(user, author, foreign)
             \/ /\ Delivers
                /\ response'.arg.data.type = "follow"
                /\ "response_type" \in DOMAIN response'.arg.data
                /\ response'.arg.data.response_type = "Accept"]_vars

\* C26: an inbox delivery leaves every Author row without a node, and every
\* Entry row of such an author, as it was
C26_DeliveryKeepsLocalRecords ==
    [][Delivers =>
          /\ \A a \in authors : is_local(a) => a \in authors'
          /\ \A e \in entries :
                (\E a \in AuthorByUrl(authors, e.author) : is_local(a))
                   => e \in entries']_vars

\* C27: an Entry row whose visibility is DELETED keeps that visibility for
\* as long as the row is stored
C27_DeletedStaysDeleted ==
    [][\A e \in entries, x \in entries' :
          (e.visibility = DELETED /\ x.id = e.id) => x.visibility = DELETED]_vars

\* C30: a follow request posted to an inbox whose owner is not the author
\* the request names as object creates no Follow toward the inbox owner
C30_FollowOnlyTowardObject ==
    [][(/\ Delivers
        /\ response'.arg.data.type = "follow"
        /\ "response_type" \notin DOMAIN response'.arg.data
        /\ response'.arg.data.object.id # response'.arg.recipient)
       => \A f \in follows' \ follows : f.followed # response'.arg.recipient]_vars

(***************************************************************************)
(* Two follow requests at the same time                                    *)
(*                                                                         *)
(* Each statement a request sends to the database is one step: the SELECT  *)
(* of the Follow, its INSERT, UPDATE or DELETE, the two SELECTs of          *)
(* Friendship.update_friendships and its write to the Friendship table.    *)
(* No request runs in a transaction, so the other request may run between  *)
(* any two of them.                                                        *)
(***************************************************************************)
FollowOps == {"create", "accept", "reject", "delete"}

\* a request on the Follow of follower to followed: where it stands, what
\* its SELECTs found and its HTTP status
FollowRequest(pc, op, follower, followed, f12, f21, status) ==
    [pc |-> pc, op |-> op, follower |-> follower, followed |-> followed,
     f12 |-> f12, f21 |-> f21, status |-> status]

\* the request is received and selects its Follow: FollowViewSet.create
\* goes on when the pair has no Follow, accept, reject and destroy when
\* get_object finds the Follow
FollowReceive(w, op, follower, followed) ==
    /\ workers[w].pc = "idle"
    /\ follower # followed
    /\ (op = "create") <=> (FollowOf(follows, follower.url, followed.url) = {})
    /\ workers' = [workers EXCEPT
                      ![w] = FollowRequest("write", op, follower.url, followed.url,
                                           FALSE, FALSE, 0)]
    /\ UNCHANGED <<authors, nodes, follows, friendships, entries, likes, comments,
                   inbox, nextUuid, response>>

\* the request ends with the status
FollowAnswer(w, status) ==
    /\ workers' = [workers EXCEPT ![w].pc = "done", ![w].status = status]
    /\ response' = Resp(workers[w].op, status, None, None, {})

\* the write to the Follow table: Follow.objects.create, refused by
\* unique_together when the pair has a row by now; follow.save(), an UPDATE,
\* and an INSERT when the row is gone; follow.delete().  The post_save
\* receiver goes on to update_friendships when the status is ACCEPTED, the
\* post_delete receiver always
FollowWrite(w) ==
    /\ workers[w].pc = "write"
    /\ \E r \in {workers[w]} :
       \E existing \in {FollowOf(follows, r.follower, r.followed)} :
          CASE r.op = "create" ->
                 IF existing # {}
                 THEN /\ FollowAnswer(w, 500)
                      /\ UNCHANGED follows
                 ELSE /\ follows' = follows \cup {FollowRow(r.follower, r.followed,
                                                            REQUESTING)}
                      /\ FollowAnswer(w, 201)
            [] r.op = "accept" ->
                 /\ follows' = (follows \ existing)
                                  \cup {FollowRow(r.follower, r.followed, ACCEPTED)}
                 /\ workers' = [workers EXCEPT ![w].pc = "read12"]
                 /\ UNCHANGED response
            [] r.op = "reject" ->
                 /\ follows' = (follows \ existing)
                                  \cup {FollowRow(r.follower, r.followed, REJECTED)}
                 /\ FollowAnswer(w, 200)
            [] r.op = "delete" ->
                 /\ follows' = follows \ existing
                 /\ workers' = [workers EXCEPT ![w].pc = "read12"]
                 /\ UNCHANGED response
    /\ UNCHANGED <<authors, nodes, friendships, entries, likes, comments, inbox,
                   nextUuid>>

\* Friendship.update_friendships, first SELECT: follows_1_to_2
FollowRead12(w) ==
    /\ workers[w].pc = "read12"
    /\ workers' = [workers EXCEPT
                      ![w].pc = "read21",
                      ![w].f12 = AcceptedFollow(follows, workers[w].follower,
                                                workers[w].followed)]
    /\ UNCHANGED <<authors, nodes, follows, friendships, entries, likes, comments,
                   inbox, nextUuid, response>>

\* Friendship.update_friendships, second SELECT: follows_2_to_1
FollowRead21(w) ==
    /\ workers[w].pc = "read21"
    /\ workers' = [workers EXCEPT
                      ![w].pc = "friendship",
                      ![w].f21 = AcceptedFollow(follows, workers[w].followed,
                                                workers[w].follower)]
    /\ UNCHANGED <<authors, nodes, follows, friendships, entries, likes, comments,
                   inbox, nextUuid, response>>

\* Friendship.update_friendships, the write: get_or_create of the ordered
\* pair when both SELECTs found an ACCEPTED Follow, the DELETE of the pair's
\* rows otherwise
FriendshipWrite(w) ==
    /\ workers[w].pc = "friendship"
    /\ \E r \in {workers[w]} :
          friendships' =
             IF r.f12 /\ r.f21
             THEN friendships \cup {OrderedPair(r.follower, r.followed)}
             ELSE {x \in friendships :
                     ~ \/ (x.author1 = r.follower /\ x.author2 = r.followed)
                       \/ (x.author1 = r.followed /\ x.author2 = r.follower)}
    /\ FollowAnswer(w, 200)
    /\ UNCHANGED <<authors, nodes, follows, entries, likes, comments, inbox,
                   nextUuid>>

NextFollowRace ==
    \/ /\ \A w \in Workers : workers[w].pc = "idle"
       /\ \E user \in Members, foreign \in Members :
             follower_detail_put(user, user, foreign)
    \/ /\ \A w \in Workers : workers[w].pc = "idle"
       /\ \E user \in Members, target \in Members : follow(user, target)
    \/ \E w \in Workers, op \in FollowOps, follower \in Members, followed \in Members :
          FollowReceive(w, op, follower, followed)
    \/ \E w \in Workers : FollowWrite(w)
    \/ \E w \in Workers : FollowRead12(w)
    \/ \E w \in Workers : FollowRead21(w)
    \/ \E w \in Workers : FriendshipWrite(w)

SpecFollowRace == Init /\ [][NextFollowRace]_vars

\* C24: when the two requests have ended, a Friendship row links two authors
\* exactly when each follows the other with status ACCEPTED; stated for the
\* requests that create, accept or delete a Follow, since a reject leaves
\* the Friendship row of the pair without any other request running
C24_RaceKeepsFriendshipInvariant ==
    (\A w \in Workers : workers[w].pc = "done" /\ workers[w].op # "reject") =>
        \A a \in Members, b \in Members :
            a.url # b.url =>
                (FriendshipRow(friendships, a.url, b.url)
                    <=> (AcceptedFollow(follows, a.url, b.url)
                         /\ AcceptedFollow(follows, b.url, a.url)))



====
